---- MODULE Spec2Model ----
(***************************************************************************)
(* knowledge-mcp: the ingestion script (scripts/ingest.ts), the guides     *)
(* migration (scripts/migrate-guides.ts), the MCP server (src/index.ts)    *)
(* and the documents table (schema.sql) as a state machine.                *)
(*                                                                         *)
(* Strings that the code matches character by character (file names, the  *)
(* LIKE pattern of the ghost cleanup) are sequences of one-character       *)
(* strings.  File contents are abstract: a content carries its size class  *)
(* (the three branches of the scan loop), its title and its '## ' sections.*)
(***************************************************************************)
EXTENDS Integers, Sequences, FiniteSets, TLC

(***************************************************************************)
(* Program constants                                                       *)
(***************************************************************************)
BATCH_SIZE == 10

MAX_RETRIES == 5

EMBEDDING_MODEL == "@cf/baai/bge-m3"

MIGRATE_EMBEDDING_MODEL == "@cf/baai/bge-base-en-v1.5"

SOURCE_NAME == "aisystant-guides"

SOURCE_TYPE == "guides"

NULL == [null |-> TRUE]

(***************************************************************************)
(* Sequence helpers                                                        *)
(***************************************************************************)
Range(s) == {s[k] : k \in DOMAIN s}

RECURSIVE Pow2(_)
Pow2(n) == IF n = 0 THEN 1 ELSE 2 * Pow2(n - 1)

Min(a, b) == IF a < b THEN a ELSE b

\* Array.prototype.slice(from, to) with 0-based, end-exclusive indices.
Slice(s, from, to) == SubSeq(s, from + 1, Min(to, Len(s)))

\* new Set(seq) iterated: the distinct elements in order of first occurrence.
Distinct(s) ==
    LET positions == [k \in 1..Len(s) |-> k]
        first == SelectSeq(positions,
                           LAMBDA k : \A j \in 1..(k - 1) : s[j] # s[k])
    IN  [n \in 1..Len(first) |-> s[first[n]]]

(***************************************************************************)
(* SQL LIKE: '%' matches any run of characters, '_' any one character, a   *)
(* backslash makes the character after it match itself, and every other    *)
(* pattern character matches itself.                                       *)
(***************************************************************************)
RECURSIVE Like(_, _)
Like(s, pat) ==
    IF pat = <<>> THEN s = <<>>
    ELSE IF Head(pat) = "\\" /\ Len(pat) >= 2
         THEN /\ s # <<>>
              /\ Head(s) = pat[2]
              /\ Like(Tail(s), Tail(Tail(pat)))
    ELSE IF Head(pat) = "%"
         THEN Like(s, Tail(pat)) \/ (s # <<>> /\ Like(Tail(s), pat))
         ELSE /\ s # <<>>
              /\ (Head(pat) = "_" \/ Head(pat) = Head(s))
              /\ Like(Tail(s), Tail(pat))

\* String.prototype.startsWith
StartsWith(s, p) == Len(s) >= Len(p) /\ SubSeq(s, 1, Len(p)) = p

Sep == <<":", ":">>

(***************************************************************************)
(* Content Addressor and Embedding Provider                                *)
(***************************************************************************)
\* sha256(content), first 16 hex digits: equal contents give equal hashes,
\* and the contents of the model give pairwise different ones.
contentHash(content) == [sha |-> content]

\* d.content.slice(0, CHUNK_CHAR_LIMIT): a content over the per-chunk budget
\* is cut, any other is sent whole.
EmbedText(content) ==
    IF content.over THEN [head |-> content] ELSE content

\* The vector the provider returns for one text under a model.
Vector(model, text) == [model |-> model, of |-> text]

(***************************************************************************)
(* Chunker, as far as the sync engine sees it: one chunk per '## ' section *)
(* named <file>::<section>, its content prefixed by the breadcrumb when    *)
(* the document has a title.                                               *)
(***************************************************************************)
chunkLargeFile(content, filename) ==
    [k \in 1..Len(content.secs) |->
        LET sec == content.secs[k]
        IN  [filename |-> filename \o Sep \o sec.name,
             content  |-> [over  |-> FALSE,
                           crumb |-> IF content.title # ""
                                     THEN <<content.title, sec.name>>
                                     ELSE <<>>,
                           text  |-> sec]]]

\* The scan loop of ingestSource: a near-empty file is skipped, a file over
\* LARGE_FILE_THRESHOLD is chunked, any other is one document.  A document
\* that is no chunk has no parentFile (the empty string here: the code tests
\* d.parentFile for truthiness only).
RECURSIVE ScanDocuments(_)
ScanDocuments(files) ==
    IF files = <<>> THEN <<>>
    ELSE LET file == Head(files)
             content == file.content
             docs ==
                IF content.size = "tiny" THEN <<>>
                ELSE IF content.size = "large"
                THEN LET chunks == chunkLargeFile(content, file.relative)
                     IN  [k \in 1..Len(chunks) |->
                            [filename   |-> chunks[k].filename,
                             content    |-> chunks[k].content,
                             hash       |-> contentHash(chunks[k].content),
                             parentFile |-> file.relative]]
                ELSE << [filename   |-> file.relative,
                         content    |-> content,
                         hash       |-> contentHash(content),
                         parentFile |-> <<>>] >>
         IN  docs \o ScanDocuments(Tail(files))

(***************************************************************************)
(* The documents table.  A row is a record; id and created_at are left     *)
(* out.  The table is a set of rows, so that the unique index is a         *)
(* property of the writers and not of the representation.                  *)
(***************************************************************************)
Key(row) == <<row.filename, row.source>>

RowsOfSource(rows, source) == {row \in rows : row.source = source}

\* SELECT filename, hash FROM documents WHERE ..., loaded into a Map row by
\* row: a later row of a filename replaces an earlier one, and the order of
\* the rows is the store's.
RECURSIVE HashMapsOver(_, _)
HashMapsOver(rows, names) ==
    IF names = {} THEN {<<>>}
    ELSE LET f == CHOOSE name \in names : TRUE
         IN  {(f :> row.hash) @@ m :
                 row \in {x \in rows : x.filename = f},
                 m \in HashMapsOver(rows, names \ {f})}

ExistingHashMaps(rows) == HashMapsOver(rows, {row.filename : row \in rows})

\* A diff that looks at the filename only.
IsChangedByName(existing, d) == d.filename \notin DOMAIN existing

\* existingHashes.get(d.filename) !== d.hash
IsChanged(existing, d) ==
    ~(d.filename \in DOMAIN existing /\ existing[d.filename] = d.hash)

\* The DELETE without its condition on the source.
DeleteChunksAnySource(rows, source, parentFile) ==
    {row \in rows : ~Like(row.filename, parentFile \o Sep \o <<"%">>)}

\* DELETE FROM documents WHERE source = ${source} AND filename LIKE ${parentFile + '::%'}
DeleteChunks(rows, source, parentFile) ==
    {row \in rows :
        ~(row.source = source /\ Like(row.filename, parentFile \o Sep \o <<"%">>))}

\* INSERT ... without ON CONFLICT: always a new row.
InsertPlain(rows, doc, source, source_type, embedding) ==
    rows \cup {[filename      |-> doc.filename,
                content       |-> doc.content,
                source        |-> source,
                source_type   |-> source_type,
                hash          |-> doc.hash,
                embedding     |-> embedding,
                search_vector |-> NULL]}

\* INSERT ... ON CONFLICT (filename, source) DO UPDATE SET content,
\* source_type, hash, embedding (ingest.ts): search_vector is not written.
Upsert(rows, doc, source, source_type, embedding) ==
    LET hit == {row \in rows : Key(row) = <<doc.filename, source>>}
    IN  IF hit = {}
        THEN rows \cup {[filename      |-> doc.filename,
                         content       |-> doc.content,
                         source        |-> source,
                         source_type   |-> source_type,
                         hash          |-> doc.hash,
                         embedding     |-> embedding,
                         search_vector |-> NULL]}
        ELSE (rows \ hit) \cup
             {[row EXCEPT !.content     = doc.content,
                          !.source_type = source_type,
                          !.hash        = doc.hash,
                          !.embedding   = embedding] : row \in hit}

(***************************************************************************)
(* State                                                                   *)
(***************************************************************************)
VARIABLES
    store,      \* the documents table: a set of rows
    run,        \* run[r]: the locals of ingestion process r (ingestSource)
    mig,        \* the locals of the guides migration (migrate-guides.ts main)
    srv,        \* the request the MCP server handles (src/index.ts)
    chk,        \* a call of chunkLargeFile on a measured document
    peer        \* a second call of handleMcpRequest, waiting at an await

vars == <<store, run, mig, srv, chk, peer>>

Runners == {1, 2}

NoScan == [exists |-> FALSE, files |-> <<>>]

NoHist ==
    [outcome     |-> "none",
     source      |-> "",
     source_type |-> "",
     scan        |-> NoScan,
     storeBefore |-> {},
     diffed      |-> FALSE]

IdleRun ==
    [pc             |-> "idle",
     source         |-> "",
     source_type    |-> "",
     scan           |-> NoScan,
     documents      |-> <<>>,
     existingHashes |-> <<>>,
     toIndex        |-> <<>>,
     parents        |-> <<>>,
     i              |-> 0,
     j              |-> 0,
     attempt        |-> 0,
     embeddings     |-> <<>>,
     indexed        |-> 0,
     result         |-> 0,
     error          |-> "",
     tries          |-> 0,
     \* what the run did so far
     rowsAtStart    |-> {},
     storeBefore    |-> {},
     prev           |-> NoHist,
     requests       |-> <<>>,
     deletes        |-> <<>>,
     deletedRows    |-> {},
     upserts        |-> <<>>,
     replaced       |-> FALSE,
     pauses         |-> <<>>]

IdleMig ==
    [pc             |-> "idle",
     documents      |-> <<>>,
     toIndex        |-> <<>>,
     i              |-> 0,
     j              |-> 0,
     embeddings     |-> <<>>,
     indexed        |-> 0,
     error          |-> "",
     replaced       |-> FALSE]

\* The server between two requests, and the chunker before a call.
IdleSrv ==
    [pc            |-> "idle",
     request       |-> [id |-> 0, method |-> "",
                        params |-> [name |-> "", arguments |-> <<>>]],
     queryType     |-> "",
     limit         |-> 0,
     vec           |-> {},
     kwResults     |-> <<>>,
     vectorResults |-> <<>>,
     kwFallback    |-> <<>>,
     path          |-> "",
     response      |-> {},
     \* the requests sent to the embedding provider and to the store
     calls         |-> <<>>,
     \* another call ran while this one waited at an await
     parked        |-> FALSE]

IdleChk ==
    [pc       |-> "idle",
     content  |-> [title |-> "", secs |-> <<>>],
     filename |-> "",
     chunks   |-> <<>>]

Init ==
    /\ store = {}
    /\ run = [r \in Runners |-> IdleRun]
    /\ mig = IdleMig
    /\ srv = IdleSrv
    /\ chk = IdleChk
    /\ peer = IdleSrv

(***************************************************************************)
(* ingestSource (scripts/ingest.ts)                                        *)
(***************************************************************************)
\* What the previous run of a process was: its source, its scan and how it
\* ended; for a run that failed after its diff also the table it started on.
Ended(rn) ==
    IF rn.pc \in {"done", "failed"}
    THEN LET aborted == rn.pc = "failed" /\ rn.toIndex # <<>>
         IN  [outcome     |-> IF rn.pc = "done" THEN "ok" ELSE "failed",
              source      |-> rn.source,
              source_type |-> rn.source_type,
              scan        |-> rn.scan,
              storeBefore |-> IF aborted THEN rn.storeBefore ELSE {},
              diffed      |-> aborted]
    ELSE NoHist

\* return <n>
Return(rn, n) == [rn EXCEPT !.pc = "done", !.result = n]

\* throw new Error(...): the promise of ingestSource rejects, main's catch
\* logs "Fatal error" and exits with status 1.
Throw(rn, message, tries) ==
    [rn EXCEPT !.pc = "failed", !.error = message, !.tries = tries]

\* Lines 236-280: resolve the path, scan it, read and chunk the files.
Start(r, config, scan) ==
    /\ run[r].pc \in {"idle", "done", "failed"}
    /\ LET documents == ScanDocuments(scan.files)
           fresh == [IdleRun EXCEPT !.source      = config.source,
                                    !.source_type = config.source_type,
                                    !.scan        = scan,
                                    !.storeBefore = store,
                                    !.prev        = Ended(run[r])]
           next == IF ~scan.exists \/ scan.files = <<>>
                   THEN Return(fresh, 0)
                   ELSE [fresh EXCEPT !.pc = "read", !.documents = documents]
       IN  run' = [run EXCEPT ![r] = next]
    /\ UNCHANGED <<store, mig, srv, chk, peer>>

\* One entry per changed chunk: the parents are not collected in a Set.
ChangedParentsPerChild(toIndex) ==
    LET withParent == SelectSeq(toIndex, LAMBDA d : d.parentFile # <<>>)
    IN  [k \in 1..Len(withParent) |-> withParent[k].parentFile]

\* toIndex.filter((d) => d.parentFile).map((d) => d.parentFile!) as a Set
ChangedParents(toIndex) ==
    LET withParent == SelectSeq(toIndex, LAMBDA d : d.parentFile # <<>>)
    IN  Distinct([k \in 1..Len(withParent) |-> withParent[k].parentFile])

\* Lines 282-305: read the stored hashes of the source and filter the
\* scanned documents to the new and changed ones.
ReadExisting(r) ==
    /\ run[r].pc = "read"
    /\ LET rn == run[r]
           rows == RowsOfSource(store, rn.source)
       IN  \E existing \in ExistingHashMaps(rows) :
             LET toIndex == SelectSeq(rn.documents,
                                      LAMBDA d : IsChanged(existing, d))
                 parents == ChangedParents(toIndex)
                 read == [rn EXCEPT !.existingHashes = existing,
                                    !.rowsAtStart    = rows,
                                    !.toIndex        = toIndex,
                                    !.parents        = parents]
                 next == IF toIndex = <<>>
                         THEN Return(read, 0)
                         ELSE [read EXCEPT !.pc = IF parents = <<>>
                                                  THEN "embed" ELSE "delete"]
             IN  run' = [run EXCEPT ![r] = next]
    /\ UNCHANGED <<store, mig, srv, chk, peer>>

\* Lines 306-309: one DELETE per changed parent.
CleanOldChunks(r) ==
    /\ run[r].pc = "delete"
    /\ LET rn == run[r]
           parentFile == Head(rn.parents)
           kept == DeleteChunks(store, rn.source, parentFile)
           next == [rn EXCEPT !.parents     = Tail(rn.parents),
                              !.deletes     = Append(rn.deletes, parentFile),
                              !.deletedRows = rn.deletedRows \cup (store \ kept),
                              !.pc = IF Tail(rn.parents) = <<>>
                                     THEN "embed" ELSE "delete"]
       IN  /\ store' = kept
           /\ run' = [run EXCEPT ![r] = next]
    /\ UNCHANGED <<mig, srv, chk, peer>>

\* A batch is one document short.
BatchOfNine(rn) == Slice(rn.toIndex, rn.i, rn.i + BATCH_SIZE - 1)

\* toIndex.slice(i, i + BATCH_SIZE)
Batch(rn) == Slice(rn.toIndex, rn.i, rn.i + BATCH_SIZE)

\* batch.map((d) => d.content.slice(0, CHUNK_CHAR_LIMIT))
Texts(batch) == [k \in 1..Len(batch) |-> EmbedText(batch[k].content)]

\* Math.pow(2, attempt + 1) * 1000 ms, in seconds
BackoffOffByOne(attempt) == Pow2(attempt)

BackoffSeconds(attempt) == Pow2(attempt + 1)

\* data.result.data of a successful response
ResponseData(model, texts) == [k \in 1..Len(texts) |-> Vector(model, texts[k])]

Responses == {"ok", "429", "http_error", "unsuccessful", "network"}

\* Every failed request is taken for a rate limit.
IsRateLimitedOrFailed(resp) == resp \in {"429", "http_error", "unsuccessful", "network"}

\* response.status === 429
IsRateLimited(resp) == resp = "429"

\* An error of getEmbeddings is caught and the batch skipped.
OnProviderErrorSkip(rn, message, tries) ==
    IF rn.i + BATCH_SIZE < Len(rn.toIndex)
    THEN [rn EXCEPT !.i = rn.i + BATCH_SIZE, !.attempt = 0]
    ELSE Return(rn, rn.indexed)

\* After an error of getEmbeddings the batch is requested anew.
OnProviderErrorRetry(rn, message, tries) == [rn EXCEPT !.attempt = 0]

\* An error of getEmbeddings is not caught in ingestSource.
OnProviderError(rn, message, tries) == Throw(rn, message, tries)

\* getEmbeddings, one iteration of its loop: one request and what its
\* response leads to (lines 61-90), called from line 317.
AfterResponse(rn, resp) ==
    LET texts == Texts(Batch(rn))
        sent == rn.attempt + 1
        entry == [i     |-> rn.i,
                  texts |-> texts,
                  resp  |-> resp,
                  wait  |-> IF IsRateLimited(resp)
                            THEN BackoffSeconds(rn.attempt) ELSE 0]
        logged == [rn EXCEPT !.requests = Append(rn.requests, entry)]
    IN  CASE IsRateLimited(resp) ->
               IF rn.attempt + 1 < MAX_RETRIES
               THEN [logged EXCEPT !.attempt = rn.attempt + 1]
               ELSE OnProviderError([logged EXCEPT !.attempt = rn.attempt + 1],
                         "Cloudflare AI: max retries exceeded (rate limited)", sent)
          [] resp = "network" ->
               OnProviderError(logged, "fetch failed", sent)
          [] resp = "http_error" ->
               OnProviderError(logged, "Cloudflare AI error", sent)
          [] resp = "unsuccessful" ->
               OnProviderError(logged, "Cloudflare AI: request failed", sent)
          [] OTHER ->
               [logged EXCEPT !.embeddings = ResponseData(EMBEDDING_MODEL, texts),
                              !.pc = "upsert",
                              !.j  = 0]

Fetch(r, resp) ==
    /\ run[r].pc = "embed"
    /\ LET next == AfterResponse(run[r], resp)
       IN  run' = [run EXCEPT ![r] = next]
    /\ UNCHANGED <<store, mig, srv, chk, peer>>

\* Lines 319-337: one INSERT ... ON CONFLICT per document of the batch;
\* after the last one the batch is counted and the loop pauses or ends.
UpsertDoc(r) ==
    /\ run[r].pc = "upsert"
    /\ LET rn == run[r]
           batch == Batch(rn)
           doc == batch[rn.j + 1]
           embedding == rn.embeddings[rn.j + 1]
           hit == \E row \in store : Key(row) = <<doc.filename, rn.source>>
           wrote == [rn EXCEPT !.j = rn.j + 1,
                               !.upserts = Append(rn.upserts, doc),
                               !.replaced = rn.replaced \/ hit]
           counted == [wrote EXCEPT !.indexed = rn.indexed + Len(batch)]
           next == IF rn.j + 1 < Len(batch) THEN wrote
                   ELSE IF rn.i + BATCH_SIZE < Len(rn.toIndex)
                        THEN [counted EXCEPT !.pc = "pause"]
                        ELSE Return(counted, counted.indexed)
       IN  /\ store' = Upsert(store, doc, rn.source, rn.source_type, embedding)
           /\ run' = [run EXCEPT ![r] = next]
    /\ UNCHANGED <<mig, srv, chk, peer>>

\* Line 335: setTimeout 300 ms between two batches, then the next batch.
Pause(r) ==
    /\ run[r].pc = "pause"
    /\ run' = [run EXCEPT ![r] = [@ EXCEPT !.pc = "embed",
                                           !.i = @ + BATCH_SIZE,
                                           !.attempt = 0,
                                           !.pauses = Append(@, run[r].i)]]
    /\ UNCHANGED <<store, mig, srv, chk, peer>>

\* Any await sql`...` (the SELECT, a DELETE, an INSERT) can reject: the
\* error is not caught in ingestSource.
StoreFails(r) ==
    /\ run[r].pc \in {"read", "delete", "upsert"}
    /\ LET next == Throw(run[r], "store error", 1)
       IN  run' = [run EXCEPT ![r] = next]
    /\ UNCHANGED <<store, mig, srv, chk, peer>>

(***************************************************************************)
(* The sources the runs scan                                               *)
(***************************************************************************)
Sec(name, body) == [name |-> name, body |-> body]

\* A file of fewer than 10 non-blank characters.
TinyContent ==
    [size |-> "tiny", over |-> FALSE, title |-> "", secs |-> <<>>, body |-> ""]

\* A file of at most LARGE_FILE_THRESHOLD characters.
SmallContent(body) ==
    [size |-> "small", over |-> FALSE, title |-> "", secs |-> <<>>, body |-> body]

\* A file of at most LARGE_FILE_THRESHOLD and more than CHUNK_CHAR_LIMIT
\* characters.
MidContent(body) ==
    [size |-> "small", over |-> TRUE, title |-> "", secs |-> <<>>, body |-> body]

\* A file of more than LARGE_FILE_THRESHOLD characters.
LargeContent(title, secs) ==
    [size |-> "large", over |-> TRUE, title |-> title, secs |-> secs, body |-> ""]

File(relative, content) == [relative |-> relative, content |-> content]

ParentPath == <<"p">>

SmallPath == <<"f">>

PackConfig == [source |-> "pack-a", source_type |-> "pack"]

\* The versions of the large file p: two sections; the first one edited;
\* the second one removed; the second one renamed; two sections under one
\* heading; shrunk to a single document.
ParentContents ==
    { LargeContent("T", <<Sec(<<"A">>, "a1"), Sec(<<"B">>, "b1")>>),
      LargeContent("T", <<Sec(<<"A">>, "a2"), Sec(<<"B">>, "b1")>>),
      LargeContent("T", <<Sec(<<"A">>, "a1")>>),
      LargeContent("T", <<Sec(<<"A">>, "a1"), Sec(<<"C">>, "b1")>>),
      LargeContent("T", <<Sec(<<"A">>, "a1"), Sec(<<"A">>, "a3")>>),
      MidContent("p1") }

TinyPath == <<"t">>

\* The scans of the source: the small file f and the near-empty file t
\* beside each version of p, p removed, an empty directory, and a path that
\* does not exist.
SyncScans ==
    LET base == <<File(SmallPath, SmallContent("f1")), File(TinyPath, TinyContent)>>
        parents == {<<>>} \cup {<<File(ParentPath, c)>> : c \in ParentContents}
        edited == <<File(SmallPath, SmallContent("f2")), File(TinyPath, TinyContent)>>
    IN  {[exists |-> TRUE, files |-> base \o p] : p \in parents}
        \cup {[exists |-> TRUE, files |-> edited]}
        \cup {[exists |-> TRUE, files |-> <<>>], NoScan}

(***************************************************************************)
(* Spec: one ingestion process, run after run over a changing source of    *)
(* at most BATCH_SIZE documents: no run has a second batch, so the pause   *)
(* between batches is no step of it (SpecBatch has it).                    *)
(***************************************************************************)
Next ==
    \/ \E scan \in SyncScans : Start(1, PackConfig, scan)
    \/ ReadExisting(1)
    \/ CleanOldChunks(1)
    \/ \E resp \in Responses : Fetch(1, resp)
    \/ UpsertDoc(1)
    \/ StoreFails(1)

Spec == Init /\ [][Next]_vars

(***************************************************************************)
(* What the claims speak of                                                *)
(***************************************************************************)
\* The run repeats the scan of the previous run of the same source.
RepeatsScan(rn) ==
    /\ rn.prev.outcome # "none"
    /\ rn.prev.source = rn.source
    /\ rn.prev.scan = rn.scan

Count(s, Test(_)) == Cardinality({n \in DOMAIN s : Test(s[n])})

\* How often a text was sent in a request that got the given response.
Carried(requests, text, resps) ==
    Cardinality({nm \in (DOMAIN requests) \X (1..BATCH_SIZE) :
                    /\ nm[2] \in DOMAIN requests[nm[1]].texts
                    /\ requests[nm[1]].texts[nm[2]] = text
                    /\ requests[nm[1]].resp \in resps})

\* The store, as read at the start of the run, holds the document unchanged.
UnchangedAtStart(rn, d) ==
    \E row \in rn.rowsAtStart : row.filename = d.filename /\ row.hash = d.hash

\* The files of a scan that are chunked, and the chunk names of one.
LargeFiles(scan) ==
    {scan.files[k] : k \in {n \in DOMAIN scan.files :
                                scan.files[n].content.size = "large"}}

ChunkNames(file) ==
    {c.filename : c \in Range(chunkLargeFile(file.content, file.relative))}

\* A filename of the form <parent>::<heading path>, and its parent.
SepAt(filename, k) == k + 1 <= Len(filename) /\ SubSeq(filename, k, k + 1) = Sep

IsChunkName(filename) == \E k \in 2..Len(filename) : SepAt(filename, k)

ParentOf(filename) ==
    LET k == CHOOSE n \in 2..Len(filename) :
                /\ SepAt(filename, n)
                /\ \A m \in 2..(n - 1) : ~SepAt(filename, m)
    IN  SubSeq(filename, 1, k - 1)

\* C1 (as claimed): after a run that completed, a second run over the same
\* scanned documents issues no delete, no embedding request and no upsert,
\* and returns 0.
C1_SecondRunFindsNothing ==
    \A r \in Runners :
        LET rn == run[r]
        IN  (rn.pc # "idle" /\ RepeatsScan(rn) /\ rn.prev.outcome = "ok")
            => /\ rn.pc \in {"read", "done", "failed"}
               /\ rn.deletes = <<>>
               /\ rn.requests = <<>>
               /\ rn.upserts = <<>>
               /\ rn.toIndex = <<>>
               /\ (rn.pc = "done" => rn.result = 0)

\* The heading structure of a chunked file differs between two scans.
HeadingsChanged(before, after, relative) ==
    \E old \in LargeFiles(before), new \in LargeFiles(after) :
        /\ old.relative = relative
        /\ new.relative = relative
        /\ {sec.name : sec \in Range(old.content.secs)}
             # {sec.name : sec \in Range(new.content.secs)}

\* C2 (as claimed): when the heading structure of a chunked parent changed
\* between two runs, then after the second run the store holds no record
\* '<parent>::...' of that source other than the chunks the second run wrote.
C2_OnlyNewChildrenRemain ==
    \A r \in Runners :
        LET rn == run[r]
        IN  (rn.pc = "done" /\ rn.prev.outcome = "ok" /\ rn.prev.source = rn.source)
            => \A file \in LargeFiles(rn.scan) :
                 HeadingsChanged(rn.prev.scan, rn.scan, file.relative)
                 => \A row \in RowsOfSource(store, rn.source) :
                      StartsWith(row.filename, file.relative \o Sep)
                      => \E n \in DOMAIN rn.upserts :
                           /\ rn.upserts[n].filename = row.filename
                           /\ rn.upserts[n].hash = row.hash

\* C3 (as claimed): a record that the scan holds with an equal fingerprint
\* stays in the store, as it was, during and after the run: it is neither
\* deleted nor re-embedded nor rewritten.
C3_UnchangedUntouched ==
    \A r \in Runners :
        LET rn == run[r]
        IN  \A k \in DOMAIN rn.documents :
              \A row \in rn.rowsAtStart :
                (row.filename = rn.documents[k].filename
                   /\ row.hash = rn.documents[k].hash)
                => /\ row \in store
                   /\ row \notin rn.deletedRows
                   /\ Count(rn.upserts, LAMBDA u : u.filename = row.filename) = 0
                   /\ Carried(rn.requests, EmbedText(rn.documents[k].content),
                              Responses) = 0

\* C4: when a run completes, a scanned document was skipped (no request
\* carried its text, no upsert was issued for it) iff the store held, when
\* read at the start, a record of the same filename and hash; every other
\* document was embedded once and upserted once.
C4_DiffClassification ==
    \A r \in Runners :
        LET rn == run[r]
        IN  rn.pc = "done"
            => \A k \in DOMAIN rn.documents :
                 LET d == rn.documents[k]
                     text == EmbedText(d.content)
                     sent == Carried(rn.requests, text, Responses)
                     embedded == Carried(rn.requests, text, {"ok"})
                     written == Count(rn.upserts, LAMBDA u : u = d)
                 IN  /\ UnchangedAtStart(rn, d) <=> (sent = 0 /\ written = 0)
                     /\ ~UnchangedAtStart(rn, d) => (embedded = 1 /\ written = 1)

\* A run completed that skipped one document and indexed another.
C4_Witness ==
    \E r \in Runners :
        /\ run[r].pc = "done"
        /\ run[r].upserts # <<>>
        /\ \E k \in DOMAIN run[r].documents :
             UnchangedAtStart(run[r], run[r].documents[k])

\* A chunk record whose parent was removed from the source, is now stored
\* as a single document, or lost this section while its other sections kept
\* their fingerprints.
Orphan(row, rn) ==
    /\ IsChunkName(row.filename)
    /\ LET parent == ParentOf(row.filename)
           files == {f \in Range(rn.scan.files) : f.relative = parent}
       IN  \/ files = {}
           \/ \E f \in files : f.content.size # "large"
           \/ \E f \in files :
                /\ f.content.size = "large"
                /\ row.filename \notin ChunkNames(f)
                /\ \A k \in DOMAIN rn.documents :
                     rn.documents[k].parentFile = parent
                     => UnchangedAtStart(rn, rn.documents[k])

\* C5 (as claimed): after a run of a source completes, the store holds no
\* orphaned chunk of that source.
C5_NoOrphans ==
    \A r \in Runners :
        LET rn == run[r]
        IN  (rn.pc = "done" /\ rn.documents # <<>>)
            => \A row \in RowsOfSource(store, rn.source) : ~Orphan(row, rn)

(***************************************************************************)
(* ingestSource run from its diff to its return with no failure, as a      *)
(* function of the table it starts on.                                     *)
(***************************************************************************)
RECURSIVE DeleteAll(_, _, _)
DeleteAll(rows, source, parents) ==
    IF parents = <<>> THEN rows
    ELSE DeleteAll(DeleteChunks(rows, source, Head(parents)), source, Tail(parents))

RECURSIVE UpsertAll(_, _, _, _)
UpsertAll(rows, source, source_type, docs) ==
    IF docs = <<>> THEN rows
    ELSE UpsertAll(Upsert(rows, Head(docs), source, source_type,
                          Vector(EMBEDDING_MODEL, EmbedText(Head(docs).content))),
                   source, source_type, Tail(docs))

RunToCompletion(rows, source, source_type, documents) ==
    LET existing == CHOOSE m \in ExistingHashMaps(RowsOfSource(rows, source)) : TRUE
        toIndex == SelectSeq(documents, LAMBDA d : IsChanged(existing, d))
    IN  UpsertAll(DeleteAll(rows, source, ChangedParents(toIndex)),
                  source, source_type, toIndex)

\* C8 (as claimed): after a run that was aborted after its diff, one
\* successful run over the same scanned documents leaves the store as one
\* uninterrupted run would have, with every scanned document present with
\* its scanned fingerprint.
C8_RerunAfterAbort ==
    \A r \in Runners :
        LET rn == run[r]
        IN  (rn.pc = "done" /\ RepeatsScan(rn) /\ rn.prev.outcome = "failed"
               /\ rn.prev.diffed)
            => /\ store = RunToCompletion(rn.prev.storeBefore, rn.source,
                                          rn.source_type, rn.documents)
               /\ \A k \in DOMAIN rn.documents :
                    \E row \in RowsOfSource(store, rn.source) :
                       /\ row.filename = rn.documents[k].filename
                       /\ row.hash = rn.documents[k].hash

\* The requests of a run for the batch that starts at offset i.
RequestsOf(rn, i) == SelectSeq(rn.requests, LAMBDA q : q.i = i)

RateLimitMessage == "Cloudflare AI: max retries exceeded (rate limited)"

FatalResponses == {"http_error", "unsuccessful", "network"}

\* C9: for one batch, the request is sent again after each 429 response,
\* after a wait of 2, 4, 8, 16, 32 seconds; at most 5 requests are sent; the
\* vectors of the first response that is not a 429 and succeeds are what the
\* call returns; and the call raises the rate-limit error exactly when 5
\* responses in a row were 429.
C9_RateLimitRetry ==
    \A r \in Runners :
        LET rn == run[r]
        IN  \A i \in {q.i : q \in Range(rn.requests)} :
              LET rs == RequestsOf(rn, i)
                  last == rs[Len(rs)]
                  current == i = rn.i
              IN  /\ Len(rs) <= 5
                  /\ \A n \in 1..Len(rs) :
                       /\ n < Len(rs) => rs[n].resp = "429"
                       /\ rs[n].resp = "429" => rs[n].wait = <<2, 4, 8, 16, 32>>[n]
                       /\ rs[n].resp # "429" => rs[n].wait = 0
                       /\ rs[n].texts = Texts(Slice(rn.toIndex, i, i + 10))
                  /\ (current /\ last.resp = "429" /\ Len(rs) < 5)
                        => (rn.pc = "embed" /\ rn.attempt = Len(rs))
                  /\ (current /\ last.resp = "ok")
                        => /\ rn.pc \in {"upsert", "pause", "done", "failed"}
                           /\ rn.pc = "failed" => rn.error = "store error"
                           /\ rn.embeddings =
                                [k \in DOMAIN last.texts |->
                                    Vector(EMBEDDING_MODEL, last.texts[k])]
                  /\ current
                        => ((last.resp = "429" /\ Len(rs) = 5)
                              <=> (rn.pc = "failed" /\ rn.error = RateLimitMessage))

\* A batch whose 5 requests were all answered 429, and the run failed.
C9_Witness ==
    \E r \in Runners :
        /\ run[r].pc = "failed"
        /\ run[r].error = RateLimitMessage
        /\ Len(RequestsOf(run[r], run[r].i)) = 5
        /\ run[r].requests[5].wait = 32

\* C10 (as claimed): a run is aborted by an upstream failure only after
\* the failing call was tried up to the retry ceiling.
C10_EveryFailureRetried ==
    \A r \in Runners : run[r].pc = "failed" => run[r].tries = MAX_RETRIES

ProviderErrors ==
    {"fetch failed", "Cloudflare AI error", "Cloudflare AI: request failed"}

\* C10 (amended): only a rate-limit response is retried.  A network
\* failure, a non-429 error or an unsuccessful response of the provider is
\* followed by no further request and fails the run at once, a store error
\* fails it on its first occurrence, and only the rate-limit error comes
\* after MAX_RETRIES tries.
C10_OnlyRateLimitRetried ==
    \A r \in Runners :
        LET rn == run[r]
        IN  /\ \A n \in DOMAIN rn.requests :
                 rn.requests[n].resp \in FatalResponses
                 => /\ n = Len(rn.requests)
                    /\ rn.pc = "failed"
                    /\ rn.error \in ProviderErrors
                    /\ rn.requests[n].wait = 0
            /\ \A n \in DOMAIN rn.requests :
                 n < Len(rn.requests)
                 => rn.requests[n].resp \in {"429", "ok"}
            /\ (rn.pc = "failed" /\ rn.error = "store error") => rn.tries = 1
            /\ (rn.pc = "failed" /\ rn.error = RateLimitMessage)
                 => rn.tries = MAX_RETRIES
            /\ rn.pc = "failed"
                 => rn.error \in ProviderErrors \cup {"store error", RateLimitMessage}

\* A run failed on the first response of a batch, a network failure.
C10_Witness ==
    \E r \in Runners :
        /\ run[r].pc = "failed"
        /\ Len(run[r].requests) = 1
        /\ run[r].requests[1].resp = "network"
        /\ run[r].tries = 1

(***************************************************************************)
(* SpecBatch: one ingestion process over a source that needs several       *)
(* batches: one large file q of BigSections sections, ingested and then    *)
(* ingested once more.                                                     *)
(***************************************************************************)
BigSections == 21

BigPath == <<"q">>

Digit == <<"0", "1", "2", "3", "4", "5", "6", "7", "8", "9">>

RECURSIVE Decimal(_)
Decimal(n) ==
    IF n < 10 THEN <<Digit[n + 1]>>
    ELSE Decimal(n \div 10) \o <<Digit[(n % 10) + 1]>>

\* q with every section in the given version, and q with its second half
\* edited.
BigContent(first, second) ==
    LargeContent("Q", [n \in 1..BigSections |->
                          Sec(<<"s">> \o Decimal(n),
                              IF 2 * n <= BigSections THEN first ELSE second)])

BatchScans ==
    {[exists |-> TRUE, files |-> <<File(BigPath, c)>>] :
        c \in {BigContent("x1", "x1"), BigContent("x1", "x2"), BigContent("x2", "x1")}}

\* The process has not run twice yet.
FirstOrSecondRun(r) == run[r].prev.outcome = "none"

NextBatch ==
    \/ \E scan \in BatchScans : FirstOrSecondRun(1) /\ Start(1, PackConfig, scan)
    \/ ReadExisting(1)
    \/ CleanOldChunks(1)
    \/ \E resp \in Responses : Fetch(1, resp)
    \/ UpsertDoc(1)
    \/ Pause(1)
    \/ StoreFails(1)

SpecBatch == Init /\ [][NextBatch]_vars

\* The last request of the run was answered by an error, or by the 429 that
\* reached the retry ceiling.
ProviderGaveUp(rn) ==
    /\ rn.requests # <<>>
    /\ LET last == rn.requests[Len(rn.requests)]
       IN  \/ last.resp \in FatalResponses
           \/ last.resp = "429" /\ Len(RequestsOf(rn, last.i)) >= MAX_RETRIES

\* C7: a fatal error while batch k is processed ends the run with that
\* error; the upserts of the batches before k are in the store, and no
\* request and no upsert was issued for a batch after k.
C7_AbortKeepsCommitted ==
    \A r \in Runners :
        LET rn == run[r]
        IN  /\ ProviderGaveUp(rn) => (rn.pc = "failed" /\ rn.error # "")
            /\ rn.pc = "failed"
                 => /\ rn.error # ""
                    /\ \A n \in 1..rn.i :
                         \E row \in store :
                            /\ Key(row) = <<rn.toIndex[n].filename, rn.source>>
                            /\ row.content = rn.toIndex[n].content
                            /\ row.hash = rn.toIndex[n].hash
                            /\ row.embedding =
                                 Vector(EMBEDDING_MODEL,
                                        EmbedText(rn.toIndex[n].content))
                    /\ \A n \in DOMAIN rn.requests : rn.requests[n].i <= rn.i
                    /\ Len(rn.upserts) <= rn.i + BATCH_SIZE
                    /\ rn.upserts = SubSeq(rn.toIndex, 1, Len(rn.upserts))

\* A run failed in its second batch, with a third batch still to come.
C7_Witness ==
    \E r \in Runners :
        /\ run[r].pc = "failed"
        /\ ProviderGaveUp(run[r])
        /\ run[r].i = BATCH_SIZE
        /\ run[r].i + BATCH_SIZE < Len(run[r].toIndex)
        /\ Len(run[r].upserts) = BATCH_SIZE

(***************************************************************************)
(* The guides migration (scripts/migrate-guides.ts, main)                  *)
(***************************************************************************)
\* `${guideSlug}/${s.slug}.md`
GuideFilename(section) ==
    section.guide \o <<"/">> \o section.slug \o <<".", "m", "d">>

\* d.content.slice(0, 8000)
MigrateText(content) ==
    IF content.over THEN [head8000 |-> content] ELSE content

\* to_tsvector('simple', content)
ToTsvector(content) == [tsv |-> content]

\* INSERT ... ON CONFLICT (filename, source) DO UPDATE SET content,
\* source_type, hash, embedding, search_vector (migrate-guides.ts).
MigrateUpsert(rows, doc, embedding) ==
    LET hit == {row \in rows : Key(row) = <<doc.filename, SOURCE_NAME>>}
    IN  IF hit = {}
        THEN rows \cup {[filename      |-> doc.filename,
                         content       |-> doc.content,
                         source        |-> SOURCE_NAME,
                         source_type   |-> SOURCE_TYPE,
                         hash          |-> doc.hash,
                         embedding     |-> embedding,
                         search_vector |-> ToTsvector(doc.content)]}
        ELSE (rows \ hit) \cup
             {[row EXCEPT !.content       = doc.content,
                          !.source_type   = SOURCE_TYPE,
                          !.hash          = doc.hash,
                          !.embedding     = embedding,
                          !.search_vector = ToTsvector(doc.content)] : row \in hit}

\* Lines 127-160 and 176-183: the sections read from the guides database,
\* those with content kept, each made a document.
MigStart(sections) ==
    /\ mig.pc \in {"idle", "done", "failed"}
    /\ LET valid == SelectSeq(sections, LAMBDA sec : sec.content.size # "tiny")
           documents == [k \in 1..Len(valid) |->
                            [filename |-> GuideFilename(valid[k]),
                             content  |-> valid[k].content,
                             hash     |-> contentHash(valid[k].content)]]
       IN  mig' = IF valid = <<>>
                  THEN [IdleMig EXCEPT !.pc = "done"]
                  ELSE [IdleMig EXCEPT !.pc = "read", !.documents = documents]
    /\ UNCHANGED <<store, run, srv, chk, peer>>

\* Lines 164-189: the hashes of every record of source_type 'guides',
\* whatever its source, and the documents that differ from them.
MigReadExisting ==
    /\ mig.pc = "read"
    /\ \E existing \in ExistingHashMaps({row \in store : row.source_type = SOURCE_TYPE}) :
         LET toIndex == SelectSeq(mig.documents, LAMBDA d : IsChanged(existing, d))
         IN  mig' = IF toIndex = <<>>
                    THEN [mig EXCEPT !.pc = "done"]
                    ELSE [mig EXCEPT !.pc = "embed", !.toIndex = toIndex]
    /\ UNCHANGED <<store, run, srv, chk, peer>>

\* Lines 195-197 and 68-81: one request per batch, not repeated.
MigFetch(resp) ==
    /\ mig.pc = "embed"
    /\ LET batch == Slice(mig.toIndex, mig.i, mig.i + BATCH_SIZE)
           texts == [k \in 1..Len(batch) |-> MigrateText(batch[k].content)]
       IN  mig' = IF resp = "ok"
                  THEN [mig EXCEPT !.pc = "upsert",
                                   !.j  = 0,
                                   !.embeddings =
                                       ResponseData(MIGRATE_EMBEDDING_MODEL, texts)]
                  ELSE [mig EXCEPT !.pc = "failed", !.error = "Cloudflare AI error"]
    /\ UNCHANGED <<store, run, srv, chk, peer>>

\* Lines 199-217: one INSERT ... ON CONFLICT per document; after the last
\* one of a batch the loop pauses 300 ms and goes on, or ends.
MigUpsertDoc ==
    /\ mig.pc = "upsert"
    /\ LET batch == Slice(mig.toIndex, mig.i, mig.i + BATCH_SIZE)
           doc == batch[mig.j + 1]
           hit == \E row \in store : Key(row) = <<doc.filename, SOURCE_NAME>>
           wrote == [mig EXCEPT !.j = mig.j + 1,
                                !.replaced = mig.replaced \/ hit]
           counted == [wrote EXCEPT !.indexed = mig.indexed + Len(batch)]
       IN  /\ store' = MigrateUpsert(store, doc, mig.embeddings[mig.j + 1])
           /\ mig' = IF mig.j + 1 < Len(batch) THEN wrote
                     ELSE IF mig.i + BATCH_SIZE < Len(mig.toIndex)
                          THEN [counted EXCEPT !.pc = "embed",
                                               !.i = mig.i + BATCH_SIZE]
                          ELSE [counted EXCEPT !.pc = "done"]
    /\ UNCHANGED <<run, srv, chk, peer>>

\* An await sql`...` of the migration rejects.
MigStoreFails ==
    /\ mig.pc \in {"read", "upsert"}
    /\ mig' = [mig EXCEPT !.pc = "failed", !.error = "store error"]
    /\ UNCHANGED <<store, run, srv, chk, peer>>

(***************************************************************************)
(* SpecConc: two ingestion processes and the guides migration, their store *)
(* calls interleaved.  The guides source holds one file g/s.md, small or   *)
(* large, which the migration writes too.  Each ingestion process runs    *)
(* once; the migration runs again and again.                               *)
(***************************************************************************)
GuidesConfig == [source |-> SOURCE_NAME, source_type |-> "guides"]

GuidePath == <<"g", "/", "s", ".", "m", "d">>

GuideSection(body) ==
    [guide |-> <<"g">>, slug |-> <<"s">>, content |-> SmallContent(body)]

ConcJobs ==
    {<<GuidesConfig, [exists |-> TRUE, files |-> <<File(GuidePath, c)>>]>> :
        c \in {SmallContent("g1"), SmallContent("g2"),
               LargeContent("G", <<Sec(<<"A">>, "a1")>>)}}

ConcSections == {<<GuideSection(b)>> : b \in {"g1", "g3"}}

ConcResponses == {"ok", "http_error"}

NextConc ==
    \/ \E r \in Runners :
         \/ \E job \in ConcJobs : run[r].pc = "idle" /\ Start(r, job[1], job[2])
         \/ ReadExisting(r)
         \/ CleanOldChunks(r)
         \/ \E resp \in ConcResponses : Fetch(r, resp)
         \/ UpsertDoc(r)
         \/ StoreFails(r)
    \/ \E sections \in ConcSections : MigStart(sections)
    \/ MigReadExisting
    \/ \E resp \in ConcResponses : MigFetch(resp)
    \/ MigUpsertDoc
    \/ MigStoreFails

SpecConc == Init /\ [][NextConc]_vars

KeysOf(rows) == {Key(row) : row \in rows}

UniqueKeys(rows) == \A a, b \in rows : Key(a) = Key(b) => a = b

\* The row is what the step of an ingestion process or of the migration
\* wrote: its content, source_type, hash and embedding.
WrittenBy(row) ==
    \/ \E r \in Runners :
         /\ Len(run'[r].upserts) = Len(run[r].upserts) + 1
         /\ LET doc == run'[r].upserts[Len(run'[r].upserts)]
            IN  /\ Key(row) = <<doc.filename, run[r].source>>
                /\ row.content = doc.content
                /\ row.hash = doc.hash
                /\ row.source_type = run[r].source_type
                /\ row.embedding = Vector(EMBEDDING_MODEL, EmbedText(doc.content))
    \/ /\ mig.pc = "upsert"
       /\ mig' # mig
       /\ LET doc == mig.toIndex[mig.i + mig.j + 1]
          IN  /\ Key(row) = <<doc.filename, SOURCE_NAME>>
              /\ row.content = doc.content
              /\ row.hash = doc.hash
              /\ row.source_type = SOURCE_TYPE
              /\ row.embedding =
                   Vector(MIGRATE_EMBEDDING_MODEL, MigrateText(doc.content))

\* C6: the store never holds two records of one (filename, source), and a
\* write on a key the store holds replaces that one record: content,
\* source_type, hash and embedding are the written ones and the number of
\* records stays.
C6_UniqueKey ==
    [][ /\ UniqueKeys(store)
        /\ UniqueKeys(store')
        /\ \A row \in store' \ store :
             /\ WrittenBy(row)
             /\ IF Key(row) \in KeysOf(store)
                THEN /\ Cardinality(store') = Cardinality(store)
                     /\ Cardinality({x \in store' : Key(x) = Key(row)}) = 1
                ELSE Cardinality(store') = Cardinality(store) + 1 ]_vars

\* An ingestion run and the migration have each written a key that the
\* store held.
C6_Witness ==
    /\ \E r \in Runners : run[r].replaced
    /\ mig.replaced

(***************************************************************************)
(* The MCP server (src/index.ts).  Scores are in hundredths: 1.0 is 100.   *)
(***************************************************************************)
VECTOR_CONFIDENCE_THRESHOLD == 60

\* (args.limit as number) || 5, and the default of the limit parameters
DEFAULT_LIMIT == 5

UpperCase ==
    <<"A", "B", "C", "D", "E", "F", "G", "H", "I", "J", "K", "L", "M",
      "N", "O", "P", "Q", "R", "S", "T", "U", "V", "W", "X", "Y", "Z">>

LowerCase ==
    <<"a", "b", "c", "d", "e", "f", "g", "h", "i", "j", "k", "l", "m",
      "n", "o", "p", "q", "r", "s", "t", "u", "v", "w", "x", "y", "z">>

\* Letters outside ASCII, upper and lower case: the Cyrillic letters De and
\* Ya, each one character, written by name.
OtherUpper == <<"CYR-DE", "CYR-YA">>

OtherLower == <<"cyr-de", "cyr-ya">>

\* The character classes of the regular expressions: [A-Z], \., \w, \d.
InClass(c, class) ==
    CASE class = "upper" -> c \in Range(UpperCase)
      [] class = "dot"   -> c = "."
      [] class = "word"  -> c \in Range(UpperCase) \cup Range(LowerCase)
                                    \cup Range(Digit) \cup {"_"}
      [] class = "digit" -> c \in Range(Digit)
      [] OTHER           -> FALSE

\* One item of a regular expression: a class repeated min times, or min
\* times and more.
Item(class, min, more) == [class |-> class, min |-> min, more |-> more]

\* The items p[k], p[k+1], ... match s from position i on.
RECURSIVE MatchFrom(_, _, _, _)
MatchFrom(s, i, p, k) ==
    IF k > Len(p) THEN TRUE
    ELSE \E n \in p[k].min .. (IF p[k].more THEN Len(s) + 1 - i ELSE p[k].min) :
            /\ i + n - 1 <= Len(s)
            /\ \A m \in i..(i + n - 1) : InClass(s[m], p[k].class)
            /\ MatchFrom(s, i + n, p, k + 1)

\* RegExp.prototype.test of an expression without anchors.
RegexTest(p, s) == \E i \in 1..(Len(s) + 1) : MatchFrom(s, i, p, 1)

\* /[A-Z]{2,}\.\w+\.\d+/
EntityCode ==
    <<Item("upper", 2, TRUE), Item("dot", 1, FALSE), Item("word", 1, TRUE),
      Item("dot", 1, FALSE), Item("digit", 1, TRUE)>>

\* /\.[A-Z]/
DotUpper == <<Item("dot", 1, FALSE), Item("upper", 1, FALSE)>>

\* The entity-code expression with [A-Z]+ for [A-Z]{2,}.
detectQueryTypeOneUpper(query) ==
    IF RegexTest(<<Item("upper", 1, TRUE)>> \o Tail(EntityCode), query)
    THEN "keyword"
    ELSE IF Len(query) < 30 /\ RegexTest(DotUpper, query) THEN "keyword"
    ELSE "vector"

detectQueryType(query) ==
    IF RegexTest(EntityCode, query) THEN "keyword"
    ELSE IF Len(query) < 30 /\ RegexTest(DotUpper, query) THEN "keyword"
    ELSE "vector"

\* An optional argument (source?: string): no value, or one.
None == {}

Some(x) == {x}

The(opt) == CHOOSE x \in opt : TRUE

\* lower(), character by character.
ToLower(c) ==
    IF c \in Range(UpperCase)
    THEN LowerCase[CHOOSE k \in DOMAIN UpperCase : UpperCase[k] = c]
    ELSE IF c \in Range(OtherUpper)
    THEN OtherLower[CHOOSE k \in DOMAIN OtherUpper : OtherUpper[k] = c]
    ELSE c

Lower(s) == [k \in DOMAIN s |-> ToLower(s[k])]

\* s ILIKE pat
ILike(s, pat) == Like(Lower(s), Lower(pat))

\* `%${query}%`
Pattern(query) == <<"%">> \o query \o <<"%">>

\* query.replace(/-/g, " ")
FtsQuery(query) == [k \in DOMAIN query |-> IF query[k] = "-" THEN " " ELSE query[k]]

\* The text of a stored content: the file as read.
ContentText(content) == content.body

\* The words of a text under the 'simple' configuration: its runs of
\* letters and digits, in lower case.
IsTokenChar(c) ==
    InClass(c, "word") \/ c \in Range(OtherUpper) \cup Range(OtherLower)

Tokens(s) ==
    {Lower(SubSeq(s, a, b)) : <<a, b>> \in
        {ab \in (DOMAIN s) \X (DOMAIN s) :
            /\ ab[1] <= ab[2]
            /\ \A m \in ab[1]..ab[2] : IsTokenChar(s[m])
            /\ (ab[1] = 1 \/ ~IsTokenChar(s[ab[1] - 1]))
            /\ (ab[2] = Len(s) \/ ~IsTokenChar(s[ab[2] + 1]))}}

\* search_vector @@ plainto_tsquery('simple', ftsQuery): every word of the
\* query is a word of the vector; NULL for a record without search_vector
\* and false for a query without words.
FtsMatch(search_vector, ftsQuery) ==
    /\ "tsv" \in DOMAIN search_vector
    /\ Tokens(ftsQuery) # {}
    /\ Tokens(ftsQuery) \subseteq Tokens(ContentText(search_vector.tsv))

\* The filters are not applied.
PassesFiltersNone(row, source, sourceType) == TRUE

\* (${src}::text IS NULL OR source = ${src})
\*   AND (${stype}::text IS NULL OR source_type = ${stype})
PassesFilters(row, source, sourceType) ==
    /\ (source = None \/ row.source \in source)
    /\ (sourceType = None \/ row.source_type \in sourceType)

\* The CASE with its first two branches in the other order.
KeywordScoreContentFirst(row, query) ==
    CASE ILike(ContentText(row.content), Pattern(query)) -> 100
      [] ILike(row.filename, Pattern(query)) -> 95
      [] FtsMatch(row.search_vector, FtsQuery(query)) -> 80
      [] OTHER -> 50

\* The CASE of the keyword SELECT.
KeywordScore(row, query) ==
    CASE ILike(row.filename, Pattern(query)) -> 100
      [] ILike(ContentText(row.content), Pattern(query)) -> 95
      [] FtsMatch(row.search_vector, FtsQuery(query)) -> 80
      [] OTHER -> 50

\* The WHERE without its three match predicates.
KeywordHitsUnmatched(rows, query, source, sourceType) ==
    {row \in rows : PassesFilters(row, source, sourceType)}

\* The WHERE of the keyword SELECT.
KeywordHits(rows, query, source, sourceType) ==
    {row \in rows :
        /\ \/ ILike(ContentText(row.content), Pattern(query))
           \/ ILike(row.filename, Pattern(query))
           \/ FtsMatch(row.search_vector, FtsQuery(query))
        /\ PassesFilters(row, source, sourceType)}

\* a < b for two sort keys, compared column by column.
RECURSIVE LexLess(_, _)
LexLess(a, b) ==
    /\ a # <<>>
    /\ \/ Head(a) < Head(b)
       \/ Head(a) = Head(b) /\ LexLess(Tail(a), Tail(b))

\* ORDER BY: every order of the rows that ascends in the sort key; rows of
\* equal key come in any order.
RECURSIVE OrdersBy(_, _)
OrdersBy(rows, key) ==
    IF rows = {} THEN {<<>>}
    ELSE UNION {{<<x>> \o rest : rest \in OrdersBy(rows \ {x}, key)} :
                    x \in {y \in rows : \A z \in rows : ~LexLess(key[z], key[y])}}

\* The limit is not applied.
TakeAll(s, n) == s

\* LIMIT n, and Array.prototype.slice(0, n)
Take(s, n) == SubSeq(s, 1, Min(n, Len(s)))

\* rows.map((r) => ({ filename, content, source, source_type, score }))
SearchResult(row, score) ==
    [filename    |-> row.filename,
     content     |-> row.content,
     source      |-> row.source,
     source_type |-> row.source_type,
     score       |-> score]

\* keywordSearch: the result lists the store can answer with.
keywordSearch(rows, query, source, sourceType, limit) ==
    LET hits == KeywordHits(rows, query, source, sourceType)
        key == [row \in hits |->
                  << 0 - KeywordScore(row, query),
                     IF ILike(row.filename, Pattern(query)) THEN 0 ELSE 1,
                     Len(ContentText(row.content)) >>]
    IN  {[k \in DOMAIN list |-> SearchResult(list[k], KeywordScore(list[k], query))] :
            list \in {Take(order, limit) : order \in OrdersBy(hits, key)}}

\* 1 - (embedding <=> vec): the cosine of the query vector and a stored one.
Cosine(vec, embedding) == vec.cos[embedding]

\* vectorSearch after its embedding request: the result lists the store can
\* answer with.
vectorSearch(rows, vec, source, sourceType, limit) ==
    LET hits == {row \in rows : PassesFilters(row, source, sourceType)}
        key == [row \in hits |-> << 0 - Cosine(vec, row.embedding) >>]
    IN  {[k \in DOMAIN list |-> SearchResult(list[k], Cosine(vec, list[k].embedding))] :
            list \in {Take(order, limit) : order \in OrdersBy(hits, key)}}

\* The Map `seen` of the merge, in insertion order: an entry of a filename
\* the Map holds replaces the held one, in its place, when its score is
\* higher.
RECURSIVE MergeSeen(_, _)
MergeSeen(seen, list) ==
    IF list = <<>> THEN seen
    ELSE LET r == Head(list)
             at == {k \in DOMAIN seen : seen[k].filename = r.filename}
             next == IF at = {} THEN Append(seen, r)
                     ELSE LET k == CHOOSE n \in at : TRUE
                          IN  IF r.score > seen[k].score
                              THEN [seen EXCEPT ![k] = r] ELSE seen
         IN  MergeSeen(next, Tail(list))

\* Array.prototype.sort((a, b) => b.score - a.score): stable.
RECURSIVE SortByScore(_)
SortByScore(list) ==
    IF list = <<>> THEN <<>>
    ELSE LET sorted == SortByScore(SubSeq(list, 1, Len(list) - 1))
             r == list[Len(list)]
             n == Cardinality({k \in DOMAIN sorted : sorted[k].score >= r.score})
         IN  SubSeq(sorted, 1, n) \o <<r>> \o SubSeq(sorted, n + 1, Len(sorted))

\* A merge that keeps both entries of a filename.
MergeKeepBoth(kwFallback, vectorResults, limit) ==
    Take(SortByScore(kwFallback \o vectorResults), limit)

\* A merge that puts the semantic entries first and does not sort.
MergeSemanticFirst(kwFallback, vectorResults, limit) ==
    Take(MergeSeen(<<>>, vectorResults \o kwFallback), limit)

\* Lines 169-176.
Merge(kwFallback, vectorResults, limit) ==
    Take(SortByScore(MergeSeen(<<>>, kwFallback \o vectorResults)), limit)

\* getDocument: LIMIT 1 without ORDER BY answers with any matching row.
getDocument(rows, filename, source) ==
    LET hits == {row \in rows :
                    /\ row.filename = filename
                    /\ (source = None \/ row.source \in source)}
    IN  IF hits = {} THEN {None}
        ELSE {Some([filename    |-> row.filename,
                    content     |-> row.content,
                    source      |-> row.source,
                    source_type |-> row.source_type]) : row \in hits}

\* listSources: GROUP BY source, source_type with COUNT(*).
listSources(rows, sourceType) ==
    LET hits == {row \in rows : sourceType = None \/ row.source_type \in sourceType}
    IN  {[source      |-> g[1],
          source_type |-> g[2],
          doc_count   |-> Cardinality({row \in hits :
                                          <<row.source, row.source_type>> = g})] :
            g \in {<<row.source, row.source_type>> : row \in hits}}

(***************************************************************************)
(* handleMcpRequest: one request from its arrival to its response.  Each   *)
(* action is the code up to the next await.                                *)
(***************************************************************************)
Result(id, result) == [jsonrpc |-> "2.0", id |-> id, result |-> result]

Error(id, code, message) ==
    [jsonrpc |-> "2.0", id |-> id, error |-> [code |-> code, message |-> message]]

\* { content: [{ type: "text", text }] }
TextContent(text) == [content |-> <<[type |-> "text", text |-> text]>>]

\* JSON.stringify(value, null, 2)
Json(value) == [json |-> value]

\* return <response>
Respond(sv, response) == [sv EXCEPT !.pc = "done", !.response = Some(response)]

\* The error is swallowed and an empty list returned.
CatchAsEmpty(sv, message) ==
    Respond(sv, Result(sv.request.id, TextContent(Json(<<>>))))

\* Lines 358-364: the catch of handleMcpRequest.
Catch(sv, message) == Respond(sv, Error(sv.request.id, -32000, message))

\* One request to the embedding provider or to the store, logged.
Called(sv, to, ok) ==
    [sv EXCEPT !.calls = Append(@, [to |-> to, op |-> sv.pc, ok |-> ok])]

Args(sv) == sv.request.params.arguments

\* (args.limit as number) || 5
LimitOf(args) ==
    IF args.limit = None \/ The(args.limit) = 0 THEN DEFAULT_LIMIT
    ELSE The(args.limit)

SearchResponse(sv, results, path) ==
    Respond([sv EXCEPT !.path = path],
            Result(sv.request.id, TextContent(Json(results))))

\* Lines 287-356 up to the first await.  srv is one call of
\* handleMcpRequest: the calls share no state, so a second call starts as
\* the first one does.
Receive(request) ==
    /\ srv.pc = "idle"
    /\ LET fresh == [IdleSrv EXCEPT !.request = request]
           id == request.id
           toolName == request.params.name
           args == request.params.arguments
       IN  srv' =
             CASE request.method = "initialize" ->
                    Respond(fresh, Result(id, [protocolVersion |-> "2024-11-05"]))
               [] request.method = "tools/list" ->
                    Respond(fresh, Result(id, [tools |-> "TOOLS"]))
               [] request.method = "ping" ->
                    Respond(fresh, Result(id, <<>>))
               [] request.method = "tools/call" /\ toolName = "search" ->
                    IF args.query = None
                    THEN \* detectQueryType(undefined): query.length throws
                         Catch(fresh, "Cannot read properties of undefined")
                    ELSE LET queryType == detectQueryType(The(args.query))
                         IN  [fresh EXCEPT !.queryType = queryType,
                                           !.limit = LimitOf(args),
                                           !.pc = IF queryType = "keyword"
                                                  THEN "keywordFirst" ELSE "embed"]
               [] request.method = "tools/call" /\ toolName = "get_document" ->
                    [fresh EXCEPT !.pc = "getDocument"]
               [] request.method = "tools/call" /\ toolName = "list_sources" ->
                    [fresh EXCEPT !.pc = "listSources"]
               [] request.method = "tools/call" ->
                    Respond(fresh, Error(id, -32601, "Unknown tool"))
               [] OTHER ->
                    Respond(fresh, Error(id, -32601, "Method not found"))
    /\ UNCHANGED <<store, run, mig, chk, peer>>

\* A keyword miss is answered with the empty list.
AfterKeywordFirstNoFallback(sv, kwResults) ==
    SearchResponse([sv EXCEPT !.kwResults = kwResults], kwResults, "keyword")

\* Lines 157-160.
AfterKeywordFirst(sv, kwResults) ==
    IF Len(kwResults) > 0
    THEN SearchResponse([sv EXCEPT !.kwResults = kwResults], kwResults, "keyword")
    ELSE [sv EXCEPT !.pc = "embed"]

KeywordFirst ==
    /\ srv.pc = "keywordFirst"
    /\ \E kwResults \in keywordSearch(store, The(Args(srv).query), Args(srv).source,
                                      Args(srv).source_type, srv.limit) :
         srv' = AfterKeywordFirst(Called(srv, "store", TRUE), kwResults)
    /\ UNCHANGED <<store, run, mig, chk, peer>>

\* getEmbedding (lines 45-48, called at line 121): ai.run answers with the
\* vector of the query, or fails.
Embed(answer) ==
    /\ srv.pc = "embed"
    /\ srv' = IF answer = None
              THEN Catch(Called(srv, "ai", FALSE), "AI error")
              ELSE [Called(srv, "ai", TRUE) EXCEPT !.vec = answer, !.pc = "vector"]
    /\ UNCHANGED <<store, run, mig, chk, peer>>

\* Lines 122-144 and 162-165.
VectorQuery ==
    /\ srv.pc = "vector"
    /\ \E vectorResults \in vectorSearch(store, The(srv.vec), Args(srv).source,
                                         Args(srv).source_type, srv.limit) :
         LET sv == [Called(srv, "store", TRUE) EXCEPT !.vectorResults = vectorResults]
         IN  srv' = IF /\ Len(vectorResults) > 0
                       /\ vectorResults[1].score < VECTOR_CONFIDENCE_THRESHOLD
                    THEN [sv EXCEPT !.pc = "keywordFallback"]
                    ELSE SearchResponse(sv, vectorResults, "vector")
    /\ UNCHANGED <<store, run, mig, chk, peer>>

\* Lines 166-180.
KeywordFallback ==
    /\ srv.pc = "keywordFallback"
    /\ \E kwFallback \in keywordSearch(store, The(Args(srv).query), Args(srv).source,
                                       Args(srv).source_type, srv.limit) :
         LET sv == [Called(srv, "store", TRUE) EXCEPT !.kwFallback = kwFallback]
         IN  srv' = IF Len(kwFallback) > 0
                    THEN SearchResponse(sv, Merge(kwFallback, sv.vectorResults, sv.limit),
                                        "merge")
                    ELSE SearchResponse(sv, sv.vectorResults, "vector")
    /\ UNCHANGED <<store, run, mig, chk, peer>>

\* Lines 324-338.
GetDocument ==
    /\ srv.pc = "getDocument"
    /\ \E doc \in getDocument(store, The(Args(srv).filename), Args(srv).source) :
         LET sv == Called(srv, "store", TRUE)
         IN  srv' = IF doc = None
                    THEN Respond(sv, Result(sv.request.id,
                             [content |-> <<[type |-> "text",
                                             text |-> "Document not found"]>>,
                              isError |-> TRUE]))
                    ELSE Respond(sv, Result(sv.request.id,
                                            TextContent(The(doc).content)))
    /\ UNCHANGED <<store, run, mig, chk, peer>>

\* Lines 340-347.
ListSources ==
    /\ srv.pc = "listSources"
    /\ LET sv == Called(srv, "store", TRUE)
           sources == listSources(store, Args(srv).source_type)
       IN  srv' = Respond(sv, Result(sv.request.id, TextContent(Json(sources))))
    /\ UNCHANGED <<store, run, mig, chk, peer>>

\* Any await sql`...` of the server can reject.
QueryFails ==
    /\ srv.pc \in {"keywordFirst", "vector", "keywordFallback",
                   "getDocument", "listSources"}
    /\ srv' = Catch(Called(srv, "store", FALSE), "store error")
    /\ UNCHANGED <<store, run, mig, chk, peer>>

(***************************************************************************)
(* SpecServe: the server answers requests over a store that ingestion has  *)
(* filled.  The record g was in the table when migration 001 ran           *)
(* (migrations/001-hybrid-search.sql) and so has a search_vector; the      *)
(* records ingested after it have none.                                    *)
(***************************************************************************)
\* UPDATE documents SET search_vector = to_tsvector('simple', content)
\* WHERE search_vector IS NULL
AddHybridSearch(rows) ==
    {IF "tsv" \in DOMAIN row.search_vector THEN row
     ELSE [row EXCEPT !.search_vector = ToTsvector(row.content)] : row \in rows}

Doc(filename, body) ==
    [filename   |-> filename,
     content    |-> SmallContent(body),
     hash       |-> contentHash(SmallContent(body)),
     parentFile |-> <<>>]

CodePath == <<"A", "B", ".", "C", ".", "1">>

\* The files of the sources: AB.C.1 and its lower-case namesake ab.c.1, a
\* note n in two sources, the guide g, a path with a backslash, and a file
\* named hi-yo.
DocCode == Doc(CodePath, <<"n", "o", "t", "e", " ", "x", "x", "x">>)

DocLower == Doc(Lower(CodePath), <<"h", "i", "-", "y", "o">>)

DocNoteA == Doc(<<"n">>, <<"s", "e", "e", " ">> \o CodePath)

DocNoteB == Doc(<<"n">>, <<"n", "o", "t", "e">>)

DocGuide == Doc(<<"g">>, <<"y", "o", " ", "h", "i">>)

DocSlash == Doc(<<"d", "\\">> \o CodePath, <<"n", "o", "t", "e", "s">>)

DocRest == Doc(<<"h", "i", "-", "y", "o">>, <<"r", "r">>)

ServeDocs == <<DocCode, DocLower, DocNoteA, DocNoteB, DocGuide, DocSlash, DocRest>>

\* The table after the ingestion of the guides, migration 001, and the
\* ingestion of the given documents of pack-a, pack-b and ds-a.
Ingested(packA, packB, dsA) ==
    LET guides == AddHybridSearch(
                      UpsertAll({}, SOURCE_NAME, SOURCE_TYPE, <<DocGuide>>))
        a == UpsertAll(guides, "pack-a", "pack", packA)
        b == UpsertAll(a, "pack-b", "pack", packB)
    IN  UpsertAll(b, "ds-a", "ds", dsA)

\* The stores: empty; every file; without the lower-case namesake; without
\* any file whose name holds the code.
ServeStores ==
    { {},
      Ingested(<<DocCode, DocLower, DocNoteA>>, <<DocNoteB>>, <<DocSlash, DocRest>>),
      Ingested(<<DocCode, DocNoteA>>, <<DocNoteB>>, <<DocSlash, DocRest>>),
      Ingested(<<DocNoteA>>, <<DocNoteB>>, <<DocRest>>) }

\* The cosines of a query vector and the stored vectors, one per document
\* of ServeDocs: a confident answer; an answer under the threshold; an
\* answer at the threshold; an answer under it whose two best tie.
Cosines ==
    { <<90, 80, 70, 65, 60, 50, 40>>,
      <<10, 20, 55, 50, 30, 40, 45>>,
      <<20, 30, 40, 60, 10, 50, 45>>,
      <<10, 20, 50, 50, 30, 40, 45>> }

StoredVector(doc) == Vector(EMBEDDING_MODEL, EmbedText(doc.content))

\* What ai.run answers: a vector for the query, or nothing (it throws).
QueryVectors(query) ==
    {[model |-> EMBEDDING_MODEL,
      of    |-> query,
      cos   |-> [e \in {StoredVector(ServeDocs[k]) : k \in DOMAIN ServeDocs} |->
                    c[CHOOSE k \in DOMAIN ServeDocs : StoredVector(ServeDocs[k]) = e]]] :
        c \in Cosines}

ProviderAnswers(query) == {None} \cup {Some(vec) : vec \in QueryVectors(query)}

\* The queries: an entity code that a filename holds; one with the wildcard
\* '_'; one that no record holds; one with a backslash; a short dotted
\* identifier; natural language that matches words, a substring, nothing;
\* the name of the note n of both sources; the empty query.
Queries ==
    { CodePath,
      <<"A", "B", ".", "_", ".", "1">>,
      <<"Z", "Z", ".", "Z", ".", "9">>,
      <<"d", "\\">> \o CodePath,
      <<".", "C">>,
      <<"h", "i", "-", "y", "o">>,
      <<"n", "o", "t", "e">>,
      <<"n">>,
      <<"q", "q">>,
      <<>> }

SOURCE_TYPES == {"pack", "guides", "ds"}

SearchArgs ==
    [query       : {None} \cup {Some(q) : q \in Queries},
     source      : {None, Some("pack-a")},
     source_type : {None, Some("pack"), Some("guides"), Some("wiki")},
     limit       : {None, Some(0), Some(1), Some(2)}]

GetArgs ==
    [filename : {Some(<<"n">>), Some(<<"g">>), Some(<<"z">>)},
     source   : {None, Some("pack-a"), Some("pack-b")}]

ListArgs == [source_type : {None, Some("pack"), Some("wiki")}]

Call(name, arguments) ==
    [id     |-> 7,
     method |-> "tools/call",
     params |-> [name |-> name, arguments |-> arguments]]

ServeRequests ==
    {Call("search", args) : args \in SearchArgs}
    \cup {Call("get_document", args) : args \in GetArgs}
    \cup {Call("list_sources", args) : args \in ListArgs}
    \cup {Call("nope", <<>>)}
    \cup {[id |-> 7, method |-> m, params |-> [name |-> "", arguments |-> <<>>]] :
            m \in {"initialize", "tools/list", "ping", "nope"}}

InitServe ==
    /\ store \in ServeStores
    /\ run = [r \in Runners |-> IdleRun]
    /\ mig = IdleMig
    /\ srv = IdleSrv
    /\ chk = IdleChk
    /\ peer = IdleSrv

NextServe ==
    \/ srv.pc = "idle" /\ \E request \in ServeRequests : Receive(request)
    \/ KeywordFirst
    \/ srv.pc = "embed"
         /\ \E answer \in ProviderAnswers(The(Args(srv).query)) : Embed(answer)
    \/ VectorQuery
    \/ KeywordFallback
    \/ GetDocument
    \/ ListSources
    \/ QueryFails

SpecServe == InitServe /\ [][NextServe]_vars

(***************************************************************************)
(* What the claims about the server speak of                               *)
(***************************************************************************)
IsCall(sv, name) ==
    sv.request.method = "tools/call" /\ sv.request.params.name = name

\* A search whose query is a string.
IsSearch(sv) == IsCall(sv, "search") /\ Args(sv).query # None

QueryOf(sv) == The(Args(sv).query)

\* The request was answered with a result member, with an error member.
Answered(sv) == sv.pc = "done" /\ "result" \in DOMAIN The(sv.response)

Failed(sv) == sv.pc = "done" /\ "error" \in DOMAIN The(sv.response)

\* The list a search was answered with.
ResultsOf(sv) == The(sv.response).result.content[1].text.json

CallsTo(sv, to) == SelectSeq(sv.calls, LAMBDA c : c.to = to)

\* q occurs in s, character for character.
Contains(s, q) ==
    \E k \in 0..(Len(s) - Len(q)) : SubSeq(s, k + 1, k + Len(q)) = q

\* The records a search is over: those that pass its filters.
Eligible(sv) ==
    {row \in store : PassesFilters(row, Args(sv).source, Args(sv).source_type)}

\* C11 (as claimed): for an identifier-like query whose text occurs verbatim
\* in the filename of a stored record that passes the filters, the search
\* never calls the embedding provider, and its first result is a record
\* whose filename contains the query.
C11_VerbatimFilenameFirst ==
    (/\ IsSearch(srv)
     /\ srv.queryType = "keyword"
     /\ \E row \in Eligible(srv) : Contains(row.filename, QueryOf(srv)))
    => /\ CallsTo(srv, "ai") = <<>>
       /\ Answered(srv)
            => /\ ResultsOf(srv) # <<>>
               /\ Contains(ResultsOf(srv)[1].filename, QueryOf(srv))

\* C11 (amended): for an identifier-like query such that the filename of a
\* stored record that passes the filters matches the pattern %query% of
\* ILIKE (case-insensitive, '_' and '%' of the query being wildcards and a
\* backslash an escape), the search never calls the embedding provider, it
\* is answered by the keyword path, and its first result is a record whose
\* filename matches that pattern, with score 1.0.
C11_MatchingFilenameFirst ==
    (/\ IsSearch(srv)
     /\ srv.queryType = "keyword"
     /\ \E row \in Eligible(srv) : ILike(row.filename, Pattern(QueryOf(srv))))
    => /\ CallsTo(srv, "ai") = <<>>
       /\ srv.pc \in {"keywordFirst", "done"}
       /\ Answered(srv)
            => /\ srv.path = "keyword"
               /\ ResultsOf(srv) # <<>>
               /\ ILike(ResultsOf(srv)[1].filename, Pattern(QueryOf(srv)))
               /\ ResultsOf(srv)[1].score = 100
               /\ \E row \in Eligible(srv) :
                     /\ row.filename = ResultsOf(srv)[1].filename
                     /\ row.source = ResultsOf(srv)[1].source
                     /\ row.content = ResultsOf(srv)[1].content

\* An identifier-like query was answered by the keyword path with a record
\* whose filename matches first and a record that matches by its content
\* only after it.
C11_Witness ==
    /\ IsSearch(srv)
    /\ Answered(srv)
    /\ srv.path = "keyword"
    /\ srv.queryType = "keyword"
    /\ Contains(ResultsOf(srv)[1].filename, QueryOf(srv))
    /\ \E k \in DOMAIN ResultsOf(srv) :
          ~ILike(ResultsOf(srv)[k].filename, Pattern(QueryOf(srv)))

\* The semantic path answered with a list whose first score is under the
\* threshold, and the request was answered.
LowConfidence(sv) ==
    /\ IsSearch(sv)
    /\ Answered(sv)
    /\ sv.vectorResults # <<>>
    /\ sv.vectorResults[1].score < VECTOR_CONFIDENCE_THRESHOLD

\* The highest score a filename has among the entries.
BestScore(entries, filename) ==
    CHOOSE s \in {e.score : e \in {x \in entries : x.filename = filename}} :
        \A e \in entries : e.filename = filename => e.score <= s

\* The list is the entries deduplicated by filename, each filename with the
\* highest of its scores, in descending order of score, cut to limit.
IsDedupUnion(results, entries, limit) ==
    /\ \A j, k \in DOMAIN results :
          results[j].filename = results[k].filename => j = k
    /\ \A k \in DOMAIN results :
          /\ results[k] \in entries
          /\ results[k].score = BestScore(entries, results[k].filename)
    /\ \A k \in 1..(Len(results) - 1) : results[k].score >= results[k + 1].score
    /\ Len(results) = Min(limit, Cardinality({e.filename : e \in entries}))
    /\ \A e \in entries :
          (\A k \in DOMAIN results : results[k].filename # e.filename)
          => \A k \in DOMAIN results : results[k].score >= e.score

\* C12 (as claimed): when the semantic path returns a non-empty list whose
\* first score is below 0.6, the result is the union of the semantic and
\* the keyword list deduplicated by filename, each filename with the higher
\* of its scores, sorted by score descending and truncated to limit.
C12_LowConfidenceUnion ==
    LowConfidence(srv)
    => IsDedupUnion(ResultsOf(srv),
                    Range(srv.kwFallback) \cup Range(srv.vectorResults),
                    srv.limit)

\* C12 (amended): under the same condition, when the keyword path returns
\* at least one entry the result is that deduplicated union; when it
\* returns none the result is the semantic list as it is, which is not
\* deduplicated by filename.  No merge happens otherwise.
C12_MergeWhenKeywordHits ==
    /\ LowConfidence(srv)
         => IF srv.kwFallback # <<>>
            THEN /\ srv.path = "merge"
                 /\ IsDedupUnion(ResultsOf(srv),
                                 Range(srv.kwFallback) \cup Range(srv.vectorResults),
                                 srv.limit)
            ELSE /\ srv.path = "vector"
                 /\ ResultsOf(srv) = srv.vectorResults
    /\ (IsSearch(srv) /\ srv.path = "merge") => LowConfidence(srv)

\* A merge in which a filename of the keyword list is one of the semantic
\* list too, and in which the limit cut entries off.
C12_Witness ==
    /\ LowConfidence(srv)
    /\ srv.path = "merge"
    /\ \E a \in DOMAIN srv.kwFallback, b \in DOMAIN srv.vectorResults :
          srv.kwFallback[a].filename = srv.vectorResults[b].filename
    /\ Cardinality({e.filename : e \in Range(srv.kwFallback) \cup Range(srv.vectorResults)})
          > srv.limit
    /\ Len(ResultsOf(srv)) = srv.limit

(***************************************************************************)
(* SpecClassify: detectQueryType over every query of at most MaxCode       *)
(* characters of a small alphabet, and over queries of 29 and of 30        *)
(* characters: the short ones padded, and those that begin with two        *)
(* upper-case letters padded.                                              *)
(***************************************************************************)
MaxCode == 6

MaxPadded == 3

\* An upper-case letter, a lower-case letter, a digit, the dot, and an
\* upper-case letter outside ASCII.
ClassifyAlphabet == {"A", "b", "1", ".", "CYR-YA"}

RECURSIVE StringsUpTo(_)
StringsUpTo(n) ==
    IF n = 0 THEN {<<>>}
    ELSE LET shorter == StringsUpTo(n - 1)
         IN  shorter \cup {Append(s, c) : s \in shorter, c \in ClassifyAlphabet}

\* n spaces
Spaces(n) == [k \in 1..n |-> " "]

ClassifyQueries ==
    LET codes == StringsUpTo(MaxCode)
        short == StringsUpTo(MaxPadded)
        upper == {s \in codes : Len(s) = MaxCode /\ s[1] = "A" /\ s[2] = "A"}
    IN  codes
        \cup {Spaces(29 - Len(s)) \o s : s \in short \cup upper}
        \cup {s \o Spaces(30 - Len(s)) : s \in short \cup upper}

NextClassify ==
    /\ srv.pc = "idle"
    /\ \E query \in ClassifyQueries :
        Receive(Call("search", [query       |-> Some(query),
                                source      |-> None,
                                source_type |-> None,
                                limit       |-> None]))

SpecClassify == Init /\ [][NextClassify]_vars

\* The query holds two or more upper-case letters (A-Z), a dot, a word
\* token (letters, digits, underscores), a dot and a digit, one after the
\* other.
HasEntityCode(q) ==
    \E b \in 2..Len(q), c \in 4..Len(q) :
        /\ q[b - 1] \in Range(UpperCase)
        /\ q[b] \in Range(UpperCase)
        /\ b + 1 < c
        /\ q[b + 1] = "."
        /\ \A m \in (b + 2)..(c - 1) :
              q[m] \in Range(UpperCase) \cup Range(LowerCase) \cup Range(Digit) \cup {"_"}
        /\ b + 2 <= c - 1
        /\ c + 1 <= Len(q)
        /\ q[c] = "."
        /\ q[c + 1] \in Range(Digit)

\* The query holds a dot with an upper-case letter (A-Z) right after it.
HasDotUpper(q) ==
    \E k \in 1..(Len(q) - 1) : q[k] = "." /\ q[k + 1] \in Range(UpperCase)

KeywordMissed(sv) ==
    /\ IsSearch(sv)
    /\ sv.queryType = "keyword"
    /\ sv.calls # <<>>
    /\ sv.calls[1].op = "keywordFirst"
    /\ sv.calls[1].ok
    /\ sv.kwResults = <<>>

AllOk(sv) == \A k \in DOMAIN sv.calls : sv.calls[k].ok

\* C14: an identifier-like search whose keyword path returns no record goes
\* on to the semantic path, with exactly one embedding request, and is
\* answered with the semantic list or with its low-confidence merge; a
\* natural-language search starts with the embedding request, never runs
\* the keyword path before the semantic one, and is never answered by the
\* keyword path alone.
C14_KeywordMissFallsThrough ==
    /\ KeywordMissed(srv)
         => /\ srv.pc \in {"embed", "vector", "keywordFallback", "done"}
            /\ srv.path # "keyword"
            /\ Len(CallsTo(srv, "ai")) = IF srv.pc = "embed" THEN 0 ELSE 1
            /\ Answered(srv)
                 => /\ Len(srv.calls) >= 3
                    /\ srv.calls[2].op = "embed"
                    /\ srv.calls[3].op = "vector"
                    /\ \/ srv.path = "vector" /\ ResultsOf(srv) = srv.vectorResults
                       \/ /\ srv.path = "merge"
                          /\ LowConfidence(srv)
                          /\ IsDedupUnion(ResultsOf(srv),
                                Range(srv.kwFallback) \cup Range(srv.vectorResults),
                                srv.limit)
    /\ (IsSearch(srv) /\ srv.queryType = "vector")
         => /\ srv.pc # "keywordFirst"
            /\ srv.path # "keyword"
            /\ Len(CallsTo(srv, "ai")) <= 1
            /\ \A k \in DOMAIN srv.calls :
                  /\ srv.calls[k].op # "keywordFirst"
                  /\ k = 1 => srv.calls[k].op = "embed"
                  /\ k = 2 => srv.calls[k].op = "vector" /\ srv.calls[1].ok
                  /\ k = 3 => srv.calls[k].op = "keywordFallback" /\ srv.calls[2].ok
            /\ Answered(srv)
                 => /\ Len(srv.calls) >= 2
                    /\ srv.path \in {"vector", "merge"}

\* An identifier-like search missed on the keyword path and was answered
\* with the records of the semantic path.
C14_Witness ==
    /\ KeywordMissed(srv)
    /\ Answered(srv)
    /\ ResultsOf(srv) # <<>>
    /\ ResultsOf(srv) = srv.vectorResults

\* C15: every entry of the list a search is answered with is a stored
\* record of the source and of the source_type asked for, on the keyword
\* path, the semantic path and the merge; and the semantic path draws from
\* every record that passes the filters, from every record when none is
\* given.
C15_FiltersHold ==
    (IsSearch(srv) /\ Answered(srv))
    => /\ \A k \in DOMAIN ResultsOf(srv) :
             LET entry == ResultsOf(srv)[k]
             IN  /\ Args(srv).source # None => entry.source = The(Args(srv).source)
                 /\ Args(srv).source_type # None
                      => entry.source_type = The(Args(srv).source_type)
                 /\ \E row \in store :
                       /\ row.filename = entry.filename
                       /\ row.source = entry.source
                       /\ row.source_type = entry.source_type
                       /\ row.content = entry.content
       /\ srv.path # "keyword"
            => Len(srv.vectorResults) =
                 Min(srv.limit,
                     Cardinality({row \in store :
                        /\ Args(srv).source # None => row.source = The(Args(srv).source)
                        /\ Args(srv).source_type # None
                             => row.source_type = The(Args(srv).source_type)}))

\* A merge under a source filter, over a store in which a record of
\* another source matches the query by keyword.
C15_Witness ==
    /\ IsSearch(srv)
    /\ Answered(srv)
    /\ srv.path = "merge"
    /\ Args(srv).source # None
    /\ \E row \in KeywordHits(store, QueryOf(srv), None, None) :
          row.source # The(Args(srv).source)

\* C16: a search with limit >= 1 is answered with at most limit entries on
\* the keyword path, the semantic path and the merge, and a search without
\* limit is answered as one with limit 5: with at most 5 entries, and on
\* the semantic path with 5 when more records than that pass the filters.
C16_ResultCount ==
    (IsSearch(srv) /\ Answered(srv))
    => LET asked == Args(srv).limit
           limit == IF asked = None THEN 5 ELSE The(asked)
       IN  (asked = None \/ limit >= 1)
           => /\ Len(ResultsOf(srv)) <= limit
              /\ Len(srv.kwResults) <= limit
              /\ Len(srv.vectorResults) <= limit
              /\ Len(srv.kwFallback) <= limit
              /\ srv.path = "vector"
                   => Len(ResultsOf(srv)) = Min(limit, Cardinality(Eligible(srv)))

\* A search without limit was answered with 5 of more than 5 records.
C16_Witness ==
    /\ IsSearch(srv)
    /\ Answered(srv)
    /\ Args(srv).limit = None
    /\ Len(ResultsOf(srv)) = 5
    /\ Cardinality(Eligible(srv)) > 5

\* The records get_document asks for.
Wanted(sv) ==
    {row \in store :
        /\ row.filename = The(Args(sv).filename)
        /\ Args(sv).source # None => row.source = The(Args(sv).source)}

\* C17 (as claimed): get_document on a filename that no record of the
\* given source has is answered with the not-found result, which has no
\* error member and is not flagged as an error; when such a record exists,
\* the answer is the content of a record of that filename and source.
C17_NotFoundIsNoError ==
    (IsCall(srv, "get_document") /\ srv.pc = "done" /\ AllOk(srv))
    => LET response == The(srv.response)
       IN  /\ "result" \in DOMAIN response
           /\ "error" \notin DOMAIN response
           /\ IF Wanted(srv) = {}
              THEN /\ response.result.content[1].text = "Document not found"
                   /\ "isError" \in DOMAIN response.result
                        => ~response.result.isError
              ELSE /\ "isError" \notin DOMAIN response.result
                   /\ \E row \in Wanted(srv) :
                         response.result.content[1].text = row.content

\* The arguments of a search are malformed: no query, an empty query, or a
\* source_type that is none of pack, guides, ds.
Malformed(sv) ==
    /\ IsCall(sv, "search")
    /\ \/ Args(sv).query = None
       \/ Args(sv).query = Some(<<>>)
       \/ /\ Args(sv).source_type # None
          /\ The(Args(sv).source_type) \notin SOURCE_TYPES

\* C18 (as claimed): a search with malformed arguments is answered with an
\* error, and no request is sent to the embedding provider or to the store.
C18_MalformedRejected ==
    Malformed(srv)
    => /\ srv.calls = <<>>
       /\ srv.pc = "done"
            => \/ "error" \in DOMAIN The(srv.response)
               \/ /\ "isError" \in DOMAIN The(srv.response).result
                  /\ The(srv.response).result.isError

\* C19: when a request to the embedding provider or to the store fails
\* during search, get_document or list_sources, the response has an error
\* member with code -32000 and the id of the request and no result member,
\* and the failed request is the last one sent: nothing is sent again.  A
\* search is answered with an empty list only when every request succeeded
\* and no record passes its filters.
C19_FailureIsError ==
    /\ ~AllOk(srv)
         => /\ srv.pc = "done"
            /\ DOMAIN The(srv.response) = {"jsonrpc", "id", "error"}
            /\ The(srv.response).error.code = -32000
            /\ The(srv.response).id = srv.request.id
            /\ \A k \in DOMAIN srv.calls : srv.calls[k].ok <=> k < Len(srv.calls)
            /\ \A j, k \in DOMAIN srv.calls :
                  srv.calls[j].op = srv.calls[k].op => j = k
    /\ (IsSearch(srv) /\ Answered(srv) /\ ResultsOf(srv) = <<>>)
         => /\ AllOk(srv)
            /\ \E k \in DOMAIN srv.calls : srv.calls[k].op = "vector"
            /\ Eligible(srv) = {}

\* The keyword query of the low-confidence fallback failed, after the
\* embedding request and the vector query had succeeded.
C19_Witness ==
    /\ IsSearch(srv)
    /\ Failed(srv)
    /\ Len(srv.calls) = 3
    /\ srv.calls[3].op = "keywordFallback"
    /\ ~srv.calls[3].ok

(***************************************************************************)
(* chunkLargeFile on measured text                                         *)
(*                                                                         *)
(* The chunker decides by lengths only, so a text is given by the lengths  *)
(* of its parts.  A document is its title ("" when no line starts with     *)
(* '# ') and its pieces between lines that start with '## '; a piece       *)
(* without such a line (the leading material) has the name "".  A section  *)
(* is its pieces between lines that start with '### ', the first of them   *)
(* with the name "".  A subsection is the lengths of its paragraphs, which *)
(* are separated by one blank line, and the number of line breaks after    *)
(* the last one (tail).  Headings are part of the paragraph they open.     *)
(* File and chunk names are strings here.                                  *)
(***************************************************************************)
CHUNK_CHAR_LIMIT == 10000

LARGE_FILE_THRESHOLD == 100000

RECURSIVE SumSeq(_)
SumSeq(s) == IF s = <<>> THEN 0 ELSE Head(s) + SumSeq(Tail(s))

RECURSIVE Flatten(_)
Flatten(ss) == IF ss = <<>> THEN <<>> ELSE Head(ss) \o Flatten(Tail(ss))

\* subsection.trim().length and subsection.length
SubTrim(sub) == SumSeq(sub.paras) + 2 * (Len(sub.paras) - 1)

SubLength(sub) == SubTrim(sub) + sub.tail

\* section.length and section.trim().length
SectionLength(sec) == SumSeq([k \in DOMAIN sec.subs |-> SubLength(sec.subs[k])])

SectionTrim(sec) == SectionLength(sec) - sec.subs[Len(sec.subs)].tail

SectionParas(sec) == Flatten([k \in DOMAIN sec.subs |-> sec.subs[k].paras])

\* content.length
DocLength(content) ==
    SumSeq([k \in DOMAIN content.secs |-> SectionLength(content.secs[k])])

\* docTitle ? `> ${docTitle} > ${name}\n\n` : ""
Prefix(docTitle, name) ==
    IF docTitle # "" THEN "> " \o docTitle \o " > " \o name \o "\n\n" ELSE ""

\* The breadcrumb of a part without its part number.
PartPrefixPlain(docTitle, subName, partIndex) == Prefix(docTitle, subName)

\* docTitle ? `> ${docTitle} > ${subName} (part ${++partIndex})\n\n` : ""
\* with partIndex already incremented.
PartPrefix(docTitle, subName, partIndex) ==
    IF docTitle # ""
    THEN "> " \o docTitle \o " > " \o subName
              \o " (part " \o ToString(partIndex) \o ")\n\n"
    ELSE ""

\* prefix + text: the prefix, the paragraphs of the text and the length of
\* the whole.
ChunkContent(prefix, paras, textLength) ==
    [prefix |-> prefix, paras |-> paras, length |-> Len(prefix) + textLength]

\* subsection.split(/\n\n+/): a single trailing line break stays with the
\* last paragraph, a trailing blank line leaves an empty last element.
Paragraphs(sub) ==
    [k \in DOMAIN sub.paras |->
        [length |-> sub.paras[k]
                      + (IF k = Len(sub.paras) /\ sub.tail = 1 THEN 1 ELSE 0),
         trim   |-> sub.paras[k]]]
    \o (IF sub.tail >= 2 THEN <<[length |-> 0, trim |-> 0]>> ELSE <<>>)

EmptyAccumulator == [length |-> 0, trim |-> 0, paras |-> <<>>]

\* accumulator = para: what was accumulated before is forgotten.
AddParagraphLast(accumulator, para) ==
    [length |-> para.length,
     trim   |-> para.trim,
     paras  |-> IF para.trim = 0 THEN <<>> ELSE <<para.trim>>]

\* accumulator += (accumulator ? "\n\n" : "") + para
AddParagraph(accumulator, para) ==
    LET before == IF accumulator.length > 0 THEN accumulator.length + 2 ELSE 0
    IN  [length |-> before + para.length,
         trim   |-> IF para.trim = 0 THEN accumulator.trim ELSE before + para.trim,
         paras  |-> IF para.trim = 0 THEN accumulator.paras
                    ELSE Append(accumulator.paras, para.trim)]

\* chunks.push({ filename: `${filename}::${subName}::part${partIndex}`,
\*               content: prefix + accumulator.trim() })
\* where ++partIndex is evaluated only when the document has a title.
PartChunk(docTitle, filename, subName, partIndex, accumulator) ==
    LET index == IF docTitle # "" THEN partIndex + 1 ELSE partIndex
    IN  [filename |-> filename \o "::" \o subName \o "::part" \o ToString(index),
         content  |-> ChunkContent(PartPrefix(docTitle, subName, index),
                                   accumulator.paras, accumulator.trim)]

\* The loop over the paragraphs and the final accumulator (lines 182-214).
RECURSIVE SplitByParagraphs(_, _, _, _, _, _)
SplitByParagraphs(paragraphs, accumulator, partIndex, docTitle, filename, subName) ==
    IF paragraphs = <<>>
    THEN IF accumulator.trim >= 10
         THEN IF partIndex > 0
              THEN <<PartChunk(docTitle, filename, subName, partIndex, accumulator)>>
              ELSE <<[filename |-> filename \o "::" \o subName,
                      content  |-> ChunkContent(Prefix(docTitle, subName),
                                                accumulator.paras, accumulator.trim)]>>
         ELSE <<>>
    ELSE LET para  == Head(paragraphs)
             flush == /\ accumulator.length + para.length + 2 > CHUNK_CHAR_LIMIT
                      /\ accumulator.length > 0
             index == IF flush /\ docTitle # "" THEN partIndex + 1 ELSE partIndex
         IN  (IF flush
              THEN <<PartChunk(docTitle, filename, subName, partIndex, accumulator)>>
              ELSE <<>>)
             \o SplitByParagraphs(Tail(paragraphs),
                    AddParagraph(IF flush THEN EmptyAccumulator ELSE accumulator, para),
                    index, docTitle, filename, subName)

\* The subsection loop with subName joined by "::".
SubsectionChunksColons(sub, sectionName, docTitle, filename) ==
    IF SubTrim(sub) < 10 THEN <<>>
    ELSE LET subName == IF sub.name # "" THEN sectionName \o "::" \o sub.name
                        ELSE sectionName
         IN  IF SubLength(sub) <= CHUNK_CHAR_LIMIT
             THEN <<[filename |-> filename \o "::" \o subName,
                     content  |-> ChunkContent(Prefix(docTitle, subName),
                                               sub.paras, SubLength(sub))]>>
             ELSE SplitByParagraphs(Paragraphs(sub), EmptyAccumulator, 0,
                                    docTitle, filename, subName)

\* The body of the loop over the subsections (lines 167-215).
SubsectionChunks(sub, sectionName, docTitle, filename) ==
    IF SubTrim(sub) < 10 THEN <<>>
    ELSE LET subName == IF sub.name # "" THEN sectionName \o " > " \o sub.name
                        ELSE sectionName
         IN  IF SubLength(sub) <= CHUNK_CHAR_LIMIT
             THEN <<[filename |-> filename \o "::" \o subName,
                     content  |-> ChunkContent(Prefix(docTitle, subName),
                                               sub.paras, SubLength(sub))]>>
             ELSE SplitByParagraphs(Paragraphs(sub), EmptyAccumulator, 0,
                                    docTitle, filename, subName)

\* The body of the loop over the sections (lines 151-217).
SectionChunks(sec, docTitle, filename) ==
    IF SectionTrim(sec) < 10 THEN <<>>
    ELSE LET sectionName == IF sec.name # "" THEN sec.name ELSE "_intro"
         IN  IF SectionLength(sec) <= CHUNK_CHAR_LIMIT
             THEN <<[filename |-> filename \o "::" \o sectionName,
                     content  |-> ChunkContent(Prefix(docTitle, sectionName),
                                               SectionParas(sec), SectionLength(sec))]>>
             ELSE Flatten([k \in DOMAIN sec.subs |->
                              SubsectionChunks(sec.subs[k], sectionName,
                                               docTitle, filename)])

\* chunkLargeFile (lines 137-226) on a measured document.
chunkLargeFileMeasured(content, filename) ==
    Flatten([k \in DOMAIN content.secs |->
                SectionChunks(content.secs[k], content.title, filename)])

\* Lines 257-259: a file over LARGE_FILE_THRESHOLD is given to
\* chunkLargeFile.
ChunkLargeFile(content, filename) ==
    /\ chk.pc = "idle"
    /\ DocLength(content) > LARGE_FILE_THRESHOLD
    /\ chk' = [pc       |-> "done",
               content  |-> content,
               filename |-> filename,
               chunks   |-> chunkLargeFileMeasured(content, filename)]
    /\ UNCHANGED <<store, run, mig, srv, peer>>

(***************************************************************************)
(* Measured documents                                                      *)
(***************************************************************************)
MaxSections == 2

BulkParagraphs == 9

Sub(name, paras, tail) == [name |-> name, paras |-> paras, tail |-> tail]

Section(name, subs) == [name |-> name, subs |-> subs]

\* '## n' and a short text.
SecSmall(name) == Section(name, <<Sub("", <<40>>, 2)>>)

\* '## n' alone: under 10 characters.
SecTiny(name) == Section(name, <<Sub("", <<6>>, 1)>>)

\* One paragraph, 9,992 characters with the blank line after it.
SecNear(name) == Section(name, <<Sub("", <<9990>>, 2)>>)

\* Two paragraphs, exactly 10,000 characters.
SecExact(name) == Section(name, <<Sub("", <<5000, 4996>>, 2)>>)

\* Over the budget, with two '### ' subsections under it.
SecSubs(name) ==
    Section(name, <<Sub("", <<4>>, 2),
                    Sub("x", <<6000>>, 2),
                    Sub("y", <<5000, 4994>>, 2)>>)

\* Over the budget without '### ': split by paragraph, one of the
\* paragraphs over the budget alone.
SecParas(name) == Section(name, <<Sub("", <<6000, 3990, 12000, 30>>, 2)>>)

SectionShapes(name) ==
    {SecSmall(name), SecTiny(name), SecNear(name), SecExact(name),
     SecSubs(name), SecParas(name)}

\* The section that brings the file over LARGE_FILE_THRESHOLD.
SecBulk(name, tail) ==
    Section(name, <<Sub("", [k \in 1..BulkParagraphs |-> 12000], tail)>>)

SectionNames == <<"a", "b", "c", "d">>

RECURSIVE Bodies(_)
Bodies(n) ==
    IF n = 0 THEN {<<>>}
    ELSE Bodies(n - 1)
         \cup {Append(body, sec) : body \in {b \in Bodies(n - 1) : Len(b) = n - 1},
                                   sec \in SectionShapes(SectionNames[n])}

\* No leading material, leading material without title, and a '# T' title
\* followed by leading material.
Heads ==
    {[title |-> "",  secs |-> <<>>],
     [title |-> "",  secs |-> <<Section("", <<Sub("", <<50>>, 2)>>)>>],
     [title |-> "T", secs |-> <<Section("", <<Sub("", <<3, 50>>, 2)>>)>>]}

\* Two sections under the same '## ' heading, and an over-budget section
\* with two subsections under the same '### ' heading.
TwinBodies ==
    { <<SecSmall("a"), SecNear("a")>>,
      <<Section("a", <<Sub("", <<4>>, 2),
                       Sub("x", <<6000>>, 2),
                       Sub("x", <<7000>>, 2)>>)>> }

\* An over-budget section without '### ' whose last two paragraphs are
\* three characters each: they stay in the accumulator after the flush.
ShortEndBodies ==
    { <<Section("a", <<Sub("", <<9996, 3, 3>>, 2)>>)>> }

ChunkDocuments ==
    {[title |-> head.title,
      secs  |-> head.secs \o body \o <<SecBulk("z", tail)>>] :
        head \in Heads,
        body \in (Bodies(MaxSections) \ {<<>>}) \cup TwinBodies \cup ShortEndBodies,
        tail \in 0..2}

NextChunk ==
    /\ chk.pc = "idle"
    /\ \E content \in ChunkDocuments : ChunkLargeFile(content, "big.md")

SpecChunk == Init /\ [][NextChunk]_vars

\* C20 (as claimed): the content of every chunk that chunkLargeFile emits,
\* breadcrumb prefix included, is at most 10,000 characters long, unless
\* the chunk is a single paragraph that is over 10,000 characters alone.
C20_ChunkSizeBound ==
    chk.pc = "done"
    => \A k \in DOMAIN chk.chunks :
          LET content == chk.chunks[k].content
          IN  \/ content.length <= 10000
              \/ Len(content.paras) = 1 /\ content.paras[1] > 10000

(***************************************************************************)
(* The scan loop on measured text: what ingestSource pushes to documents   *)
(* for one file (lines 253-278).  A whole file is pushed with the measured *)
(* document as its content, a chunk with the content chunkLargeFile gave.  *)
(***************************************************************************)
\* content.trim().length
DocTrim(content) ==
    DocLength(content)
      - content.secs[Len(content.secs)].subs[Len(content.secs[Len(content.secs)].subs)].tail

\* A file at the threshold is chunked as well.
ScanFileAtThreshold(content, relative) ==
    IF DocTrim(content) < 10 THEN <<>>
    ELSE IF DocLength(content) >= LARGE_FILE_THRESHOLD
    THEN LET chunks == chunkLargeFileMeasured(content, relative)
         IN  [k \in DOMAIN chunks |->
                [filename   |-> chunks[k].filename,
                 content    |-> chunks[k].content,
                 hash       |-> contentHash(chunks[k].content),
                 parentFile |-> relative]]
    ELSE << [filename   |-> relative,
             content    |-> content,
             hash       |-> contentHash(content),
             parentFile |-> ""] >>

\* The body of the loop over the files (lines 253-278).
ScanFile(content, relative) ==
    IF DocTrim(content) < 10 THEN <<>>
    ELSE IF DocLength(content) > LARGE_FILE_THRESHOLD
    THEN LET chunks == chunkLargeFileMeasured(content, relative)
         IN  [k \in DOMAIN chunks |->
                [filename   |-> chunks[k].filename,
                 content    |-> chunks[k].content,
                 hash       |-> contentHash(chunks[k].content),
                 parentFile |-> relative]]
    ELSE << [filename   |-> relative,
             content    |-> content,
             hash       |-> contentHash(content),
             parentFile |-> ""] >>

ReadFile(content, relative) ==
    /\ chk.pc = "idle"
    /\ chk' = [pc        |-> "scanned",
               content   |-> content,
               filename  |-> relative,
               chunks    |-> IF DocLength(content) > LARGE_FILE_THRESHOLD
                             THEN chunkLargeFileMeasured(content, relative)
                             ELSE <<>>,
               documents |-> ScanFile(content, relative)]
    /\ UNCHANGED <<store, run, mig, srv, peer>>

\* Files of one paragraph, near-empty, around the per-chunk budget and
\* around the large-file threshold, without and with a title.
FileLengths ==
    {1, 7, 9, 10, 11, 5000, 9999, 10000, 10001,
     99990, 99993, 99995, 99997, 99998, 99999, 100000, 100001, 100002}

FlatFiles ==
    {[title |-> "", secs |-> <<Section("", <<Sub("", <<n>>, tail)>>)>>] :
        n \in FileLengths, tail \in 0..2}
    \cup {[title |-> "T", secs |-> <<Section("", <<Sub("", <<3, n>>, tail)>>)>>] :
            n \in FileLengths, tail \in 0..2}

MeasuredFiles == FlatFiles \cup ChunkDocuments

NextScan ==
    /\ chk.pc = "idle"
    /\ \E content \in MeasuredFiles : ReadFile(content, "big.md")

SpecScan == Init /\ [][NextScan]_vars

\* C21 (as claimed): a scanned file of fewer than 100,000 characters, or of
\* exactly 100,000, gives exactly one document, named by the relative path
\* of the file and holding the content of the file unchanged.
C21_OneDocumentUpToThreshold ==
    (chk.pc = "scanned" /\ DocLength(chk.content) <= 100000)
    => /\ Len(chk.documents) = 1
       /\ chk.documents[1].filename = chk.filename
       /\ chk.documents[1].content = chk.content

\* C21 (amended): a scanned file of at most 100,000 characters that has at
\* least 10 characters after trimming gives exactly one document, named by
\* the relative path of the file, holding the content of the file unchanged
\* and without parent; a file of fewer than 10 characters after trimming
\* gives none.
C21_OneDocumentUnlessNearEmpty ==
    (chk.pc = "scanned" /\ DocLength(chk.content) <= 100000)
    => IF DocTrim(chk.content) >= 10
       THEN /\ Len(chk.documents) = 1
            /\ chk.documents[1].filename = chk.filename
            /\ chk.documents[1].content = chk.content
            /\ chk.documents[1].parentFile = ""
       ELSE chk.documents = <<>>

\* A file of exactly 100,000 characters was read and gave one document.
C21_Witness ==
    /\ chk.pc = "scanned"
    /\ DocLength(chk.content) = 100000
    /\ Len(chk.documents) = 1
    /\ chk.documents[1].filename = chk.filename

(***************************************************************************)
(* SpecPaths: one ingestion process over a source with large files whose   *)
(* paths hold the LIKE wildcards '_' and '%', beside a large file whose    *)
(* path holds neither.                                                     *)
(***************************************************************************)
UnderscorePath == <<"a", "_">>

PercentPath == <<"%">>

PlainPath == <<"a", "x">>

OneSection(body) == LargeContent("T", <<Sec(<<"A">>, body)>>)

TwoSections == LargeContent("T", <<Sec(<<"A">>, "x1"), Sec(<<"B">>, "x2")>>)

\* a_ in two versions, % absent or in two versions, ax always the same.
PathScans ==
    {[exists |-> TRUE,
      files  |-> <<File(PlainPath, TwoSections), File(UnderscorePath, u)>> \o p] :
        u \in {OneSection("u1"), OneSection("u2")},
        p \in {<<>>, <<File(PercentPath, OneSection("p1"))>>,
                     <<File(PercentPath, OneSection("p2"))>>}}

NextPaths ==
    \/ \E scan \in PathScans : Start(1, PackConfig, scan)
    \/ ReadExisting(1)
    \/ CleanOldChunks(1)
    \/ \E resp \in Responses : Fetch(1, resp)
    \/ UpsertDoc(1)
    \/ StoreFails(1)

SpecPaths == Init /\ [][NextPaths]_vars

\* C22 (as claimed): every record that the cleanup of a run deletes is a
\* chunk of a parent the cleanup was issued for: its filename is the path
\* of that parent followed by '::' and a heading path.
C22_DeleteConfined ==
    \A row \in run[1].deletedRows :
        \E k \in DOMAIN run[1].deletes :
            /\ StartsWith(row.filename, run[1].deletes[k] \o Sep)
            /\ Len(row.filename) > Len(run[1].deletes[k] \o Sep)

(***************************************************************************)
(* SpecRechunk: chunkLargeFile and contentHash executed twice, the chunks  *)
(* of the first execution being written to the store in between.           *)
(***************************************************************************)
\* One execution: the chunks of the file and their fingerprints.
Execution(content, filename) ==
    LET chunks == chunkLargeFileMeasured(content, filename)
    IN  [content  |-> content,
         filename |-> filename,
         chunks   |-> chunks,
         hashes   |-> [k \in DOMAIN chunks |-> contentHash(chunks[k].content)]]

\* The chunks array outlives the call: an execution returns the chunks of
\* the execution before it followed by its own.
RechunkCarried(ck, content, filename) ==
    LET own == Execution(content, filename)
        all == (IF ck.calls = <<>> THEN <<>> ELSE ck.calls[Len(ck.calls)].chunks)
                   \o own.chunks
    IN  [pc    |-> IF ck.calls = <<>> THEN "first" ELSE "second",
         calls |-> Append(ck.calls,
                      [own EXCEPT !.chunks = all,
                                  !.hashes = [k \in DOMAIN all |->
                                                 contentHash(all[k].content)]]),
         j     |-> 0]

\* chunkLargeFile starts from `const chunks = []` (line 141) and reads
\* nothing but its arguments and CHUNK_CHAR_LIMIT; contentHash reads
\* nothing but its argument (lines 131-133).
Rechunk(ck, content, filename) ==
    [pc    |-> IF ck.calls = <<>> THEN "first" ELSE "second",
     calls |-> Append(ck.calls, Execution(content, filename)),
     j     |-> 0]

ChunkFirst(content, filename) ==
    /\ chk.pc = "idle"
    /\ chk' = Rechunk([pc |-> "idle", calls |-> <<>>, j |-> 0], content, filename)
    /\ UNCHANGED <<store, run, mig, srv, peer>>

\* The next chunk of the first execution is written to the store.
WriteChunk ==
    /\ chk.pc = "first"
    /\ chk.j < Len(chk.calls[1].chunks)
    /\ LET chunk == chk.calls[1].chunks[chk.j + 1]
           doc == [filename |-> chunk.filename,
                   content  |-> chunk.content,
                   hash     |-> chk.calls[1].hashes[chk.j + 1]]
       IN  store' = Upsert(store, doc, PackConfig.source, PackConfig.source_type,
                           Vector(EMBEDDING_MODEL, chunk.content))
    /\ chk' = [chk EXCEPT !.j = chk.j + 1]
    /\ UNCHANGED <<run, mig, srv, peer>>

ChunkAgain(content, filename) ==
    /\ chk.pc = "first"
    /\ chk' = Rechunk(chk, content, filename)
    /\ UNCHANGED <<store, run, mig, srv, peer>>

\* Documents of one section before the bulk, and two file names.
RechunkDocuments ==
    {content \in ChunkDocuments :
        /\ Len(content.secs) <= 3
        /\ content.secs[Len(content.secs)].subs[1].tail = 2
        /\ \A k \in DOMAIN content.secs : content.secs[k].name # "b"}

RechunkNames == {"big.md", "other.md"}

NextRechunk ==
    \/ /\ chk.pc = "idle"
       /\ \E content \in RechunkDocuments, filename \in RechunkNames :
             ChunkFirst(content, filename)
    \/ WriteChunk
    \/ /\ chk.pc = "first"
       /\ \E content \in RechunkDocuments, filename \in RechunkNames :
             ChunkAgain(content, filename)

SpecRechunk == Init /\ [][NextRechunk]_vars

TwoRunScans ==
    {[exists |-> TRUE,
      files  |-> <<File(SmallPath, SmallContent("f1")), File(ParentPath, c)>>] :
        c \in {LargeContent("T", <<Sec(<<"A">>, "a1"), Sec(<<"B">>, "b1")>>),
               LargeContent("T", <<Sec(<<"A">>, "a1")>>)}}

\* No other process has started on another scan.
SameScan(scan) == \A q \in Runners : run[q].pc # "idle" => run[q].scan = scan

NextTwoRuns ==
    \E r \in Runners :
        \/ \E scan \in TwoRunScans :
              run[r].pc = "idle" /\ SameScan(scan) /\ Start(r, PackConfig, scan)
        \/ ReadExisting(r)
        \/ CleanOldChunks(r)
        \/ \E resp \in ConcResponses : Fetch(r, resp)
        \/ UpsertDoc(r)
        \/ StoreFails(r)

SpecTwoRuns == Init /\ [][NextTwoRuns]_vars

\* C24 (as claimed): once two runs of one source over the same scanned
\* documents have both returned, however their steps were interleaved, the
\* store holds every scanned document under its filename and the source,
\* with its scanned fingerprint.
C24_BothRunsLeaveAllPresent ==
    (/\ \A r \in Runners : run[r].pc = "done"
     /\ run[1].source = run[2].source
     /\ run[1].scan = run[2].scan)
    => \A k \in DOMAIN run[1].documents :
          \E row \in store :
              /\ row.filename = run[1].documents[k].filename
              /\ row.source = run[1].source
              /\ row.hash = run[1].documents[k].hash

(***************************************************************************)
(* SpecSessions: two calls of handleMcpRequest in one isolate.  The calls  *)
(* run one after the other or interleaved: at every await of the running   *)
(* call the other one may go on.  srv is the call that runs, peer the one   *)
(* that waits.  The functions of the server are given once more as         *)
(* functions of the request and the table, with the set of the outcomes    *)
(* the provider and the store allow.                                       *)
(***************************************************************************)
Failure(message) == [ok |-> FALSE, message |-> message]

Success(value) == [ok |-> TRUE, value |-> value]

\* Lines 162-180: vectorSearch and the low-confidence fallback.
SemanticOutcomes(rows, query, source, sourceType, limit) ==
    UNION {
      IF answer = None THEN {Failure("AI error")}
      ELSE {Failure("store error")} \cup UNION {
             IF Len(vectorResults) > 0
                /\ vectorResults[1].score < VECTOR_CONFIDENCE_THRESHOLD
             THEN {Failure("store error")} \cup
                  {IF Len(kwFallback) > 0
                   THEN Success(Merge(kwFallback, vectorResults, limit))
                   ELSE Success(vectorResults) :
                      kwFallback \in keywordSearch(rows, query, source, sourceType, limit)}
             ELSE {Success(vectorResults)} :
                vectorResults \in vectorSearch(rows, The(answer), source, sourceType, limit)} :
         answer \in ProviderAnswers(query)}

\* Lines 146-181.
searchDocuments(rows, query, source, sourceType, limit) ==
    IF detectQueryType(query) = "keyword"
    THEN {Failure("store error")} \cup UNION {
            IF Len(kwResults) > 0 THEN {Success(kwResults)}
            ELSE SemanticOutcomes(rows, query, source, sourceType, limit) :
               kwResults \in keywordSearch(rows, query, source, sourceType, limit)}
    ELSE SemanticOutcomes(rows, query, source, sourceType, limit)

\* Lines 286-365: the responses to a request over a table.
handleMcpRequest(request, rows) ==
    LET id == request.id
        toolName == request.params.name
        args == request.params.arguments
        Caught(outcomes, Answer(_)) ==
            {IF o.ok THEN Result(id, Answer(o.value)) ELSE Error(id, -32000, o.message) :
                o \in outcomes}
        Listed(value) == TextContent(Json(value))
        Found(doc) == IF doc = None
                      THEN [content |-> <<[type |-> "text",
                                           text |-> "Document not found"]>>,
                            isError |-> TRUE]
                      ELSE TextContent(The(doc).content)
    IN  CASE request.method = "initialize" ->
               {Result(id, [protocolVersion |-> "2024-11-05"])}
          [] request.method = "tools/list" -> {Result(id, [tools |-> "TOOLS"])}
          [] request.method = "ping" -> {Result(id, <<>>)}
          [] request.method = "tools/call" /\ toolName = "search" ->
               IF args.query = None
               THEN {Error(id, -32000, "Cannot read properties of undefined")}
               ELSE Caught(searchDocuments(rows, The(args.query), args.source,
                                           args.source_type, LimitOf(args)),
                           Listed)
          [] request.method = "tools/call" /\ toolName = "get_document" ->
               Caught({Failure("store error")} \cup
                      {Success(doc) :
                         doc \in getDocument(rows, The(args.filename), args.source)},
                      Found)
          [] request.method = "tools/call" /\ toolName = "list_sources" ->
               Caught({Failure("store error"),
                       Success(listSources(rows, args.source_type))},
                      Listed)
          [] request.method = "tools/call" ->
               {Error(id, -32601, "Unknown tool")}
          [] OTHER -> {Error(id, -32601, "Method not found")}

\* The limit and the query vector are shared by the calls: the call that
\* goes on finds those of the call that ran last.
ResumeShared(call, suspended) ==
    IF call.pc \in {"idle", "done"} THEN call
    ELSE [call EXCEPT !.limit = suspended.limit, !.vec = suspended.vec]

\* The call that goes on finds its own locals: query, limit, the results of
\* its queries are parameters and constants of the call (lines 146-162,
\* 287, 306-307).
Resume(call, suspended) == call

\* The running call waits at an await or has returned, and the other call
\* goes on or a second request arrives.
Yield ==
    /\ srv.pc # "idle"
    /\ peer.pc # "done"
    /\ srv' = Resume(peer, srv)
    /\ peer' = IF srv.pc = "done" THEN srv ELSE [srv EXCEPT !.parked = TRUE]
    /\ UNCHANGED <<store, run, mig, chk>>

\* The table with every document of ServeDocs.
SessionStores == {rows \in ServeStores : Cardinality(rows) >= 7}

\* A search answered by the keyword path, one that misses there, one in
\* natural language, and the two other tools.
SessionRequests ==
    {Call("search", [query |-> Some(CodePath), source |-> None,
                     source_type |-> None, limit |-> None]),
     Call("search", [query |-> Some(<<"Z", "Z", ".", "Z", ".", "9">>), source |-> None,
                     source_type |-> None, limit |-> Some(1)]),
     Call("search", [query |-> Some(<<"n", "o", "t", "e">>), source |-> None,
                     source_type |-> None, limit |-> None]),
     Call("get_document", [filename |-> Some(<<"n">>), source |-> None]),
     Call("list_sources", [source_type |-> None])}

InitSessions ==
    /\ store \in SessionStores
    /\ run = [r \in Runners |-> IdleRun]
    /\ mig = IdleMig
    /\ srv = IdleSrv
    /\ chk = IdleChk
    /\ peer = IdleSrv

NextSessions ==
    \/ srv.pc = "idle" /\ \E request \in SessionRequests : Receive(request)
    \/ KeywordFirst
    \/ srv.pc = "embed"
         /\ \E answer \in ProviderAnswers(The(Args(srv).query)) : Embed(answer)
    \/ VectorQuery
    \/ KeywordFallback
    \/ GetDocument
    \/ ListSources
    \/ QueryFails
    \/ Yield

SpecSessions == InitSessions /\ [][NextSessions]_vars

\* The response of every call that has returned is one that the request
\* has over the table when it is handled alone.
OwnResponses ==
    \A call \in {srv, peer} :
        call.pc = "done" => The(call.response) \in handleMcpRequest(call.request, store)

\* C25: no step of search, get_document or list_sources changes the store,
\* and the response to a request is one that the request has over the same
\* store when it is the only one handled, whether another request was
\* handled before it or is handled interleaved with it.
C25_ReadOnlyStateless == []OwnResponses /\ [][store' = store]_vars

\* Two different searches have both been answered, each having waited at
\* an await while the other ran.
C25_Witness ==
    /\ srv.pc = "done"
    /\ peer.pc = "done"
    /\ srv.parked
    /\ peer.parked
    /\ IsSearch(srv)
    /\ IsSearch(peer)
    /\ Answered(srv)
    /\ Answered(peer)
    /\ srv.request # peer.request
    /\ The(srv.response) # The(peer.response)

\* The parents of the documents of the diff.
ParentsInDiff(rn) ==
    {rn.toIndex[k].parentFile : k \in DOMAIN rn.toIndex} \ {<<>>}

\* C26: a run issues a prefix-delete only for a parent that has a child in
\* its diff, for no parent twice, and none when the diff is empty; and when
\* the run sends its first embedding request or writes its first document,
\* the prefix-delete of every such parent has been issued.
C26_DeleteThenWrite ==
    LET rn == run[1]
    IN  /\ \A k \in DOMAIN rn.deletes : rn.deletes[k] \in ParentsInDiff(rn)
        /\ \A j, k \in DOMAIN rn.deletes : rn.deletes[j] = rn.deletes[k] => j = k
        /\ rn.toIndex = <<>> => rn.deletes = <<>>
        /\ (rn.requests # <<>> \/ rn.upserts # <<>>)
             => Range(rn.deletes) = ParentsInDiff(rn)

\* A run has returned after the prefix-deletes of two parents and its
\* writes, a third large file of the scan being unchanged.
C26_Witness ==
    /\ run[1].pc = "done"
    /\ Len(run[1].deletes) = 2
    /\ run[1].upserts # <<>>
    /\ \E k \in DOMAIN run[1].documents :
          /\ run[1].documents[k].parentFile # <<>>
          /\ run[1].documents[k].parentFile \notin Range(run[1].deletes)

\* No request of the run was answered 429.
NotRateLimited(rn) == \A k \in DOMAIN rn.requests : rn.requests[k].resp # "429"

\* C27: a run of n documents to index that is never rate limited and
\* returns has sent ceil(n/10) embedding requests, request k carrying the
\* texts of documents 10(k-1)+1 .. min(10k, n) of the diff in their order;
\* it has written the n documents in diff order, paused after every batch
\* but the last one, and returns n.  At no time has it written a document
\* of a batch whose embeddings were not returned, and it pauses only after
\* the last document of a batch that is not the last one.
C27_Batching ==
    LET rn == run[1]
        n == Len(rn.toIndex)
        answered == Cardinality({k \in DOMAIN rn.requests : rn.requests[k].resp = "ok"})
    IN  /\ Len(rn.upserts) <= Min(10 * answered, n)
        /\ \A k \in DOMAIN rn.upserts : rn.upserts[k] = rn.toIndex[k]
        /\ rn.pc = "pause" => Len(rn.upserts) = rn.i + 10 /\ rn.i + 10 < n
        /\ (rn.pc = "done" /\ n > 0 /\ NotRateLimited(rn))
             => /\ Len(rn.requests) = (n + 9) \div 10
                /\ \A k \in DOMAIN rn.requests :
                      /\ Len(rn.requests[k].texts) = Min(10, n - 10 * (k - 1))
                      /\ \A m \in DOMAIN rn.requests[k].texts :
                            rn.requests[k].texts[m]
                              = EmbedText(rn.toIndex[10 * (k - 1) + m].content)
                /\ Len(rn.upserts) = n
                /\ Len(rn.pauses) = Len(rn.requests) - 1
                /\ \A k \in DOMAIN rn.pauses : rn.pauses[k] = 10 * (k - 1)
                /\ rn.result = n

\* A run of exactly 10 documents has returned after one request and no
\* pause, following a run of 21 documents in three requests.
C27_Witness ==
    /\ run[1].pc = "done"
    /\ NotRateLimited(run[1])
    /\ Len(run[1].toIndex) = 10
    /\ Len(run[1].requests) = 1
    /\ run[1].pauses = <<>>
    /\ run[1].result = 10
    /\ run[1].prev.outcome = "ok"

\* The stored record a result was made of.
RowOf(result) ==
    CHOOSE row \in store :
        /\ row.filename = result.filename
        /\ row.source = result.source
        /\ row.content = result.content

\* How a record matches a query, the query being read verbatim: 1 by its
\* filename, 2 by its content only, 3 by full-text search only, 4 not at
\* all.
VerbatimRank(row, query) ==
    IF Contains(row.filename, query) THEN 1
    ELSE IF Contains(ContentText(row.content), query) THEN 2
    ELSE IF FtsMatch(row.search_vector, FtsQuery(query)) THEN 3
    ELSE 4

\* How a record matches a query under the predicates of the SELECT: 1 by
\* filename ILIKE, 2 by content ILIKE only, 3 by full-text search only, 4
\* not at all.
MatchRank(row, query) ==
    IF ILike(row.filename, Pattern(query)) THEN 1
    ELSE IF ILike(ContentText(row.content), Pattern(query)) THEN 2
    ELSE IF FtsMatch(row.search_vector, FtsQuery(query)) THEN 3
    ELSE 4

\* The list ascends in the rank, records of equal rank ascend in the
\* length of their content, and every record has a rank under 4.
RankedBy(list, rank) ==
    /\ \A k \in DOMAIN list : rank[k] < 4
    /\ \A j, k \in DOMAIN list :
          j < k => \/ rank[j] < rank[k]
                   \/ /\ rank[j] = rank[k]
                      /\ Len(ContentText(list[j].content))
                           <= Len(ContentText(list[k].content))

\* The lists keywordSearch returned to the call: on the keyword-first
\* path and as the fallback of the semantic path.
KeywordLists == {srv.kwResults, srv.kwFallback}

\* C28 (as claimed): in a list keywordSearch returned, every record whose
\* filename contains the query verbatim precedes every record that only
\* contains it in its content, which precedes every record matched only
\* by full-text search; records of equal rank come shorter content first;
\* every record matches one of the three.
C28_VerbatimRanking ==
    IsSearch(srv)
    => \A list \in KeywordLists :
          RankedBy(list, [k \in DOMAIN list |->
                            VerbatimRank(RowOf(list[k]), QueryOf(srv))])

\* C28 (amended): in a list keywordSearch returned, every record whose
\* filename matches the ILIKE pattern %query% precedes every record of
\* which only the content matches that pattern, which precedes every
\* record matched only by full-text search; records of equal rank come
\* shorter content first; every record matches one of the three, and its
\* score is 1.0, 0.95 or 0.8 by its rank.
C28_KeywordRanking ==
    IsSearch(srv)
    => \A list \in KeywordLists :
          LET rank == [k \in DOMAIN list |-> MatchRank(RowOf(list[k]), QueryOf(srv))]
          IN  /\ RankedBy(list, rank)
              /\ \A k \in DOMAIN list :
                    list[k].score = CASE rank[k] = 1 -> 100
                                      [] rank[k] = 2 -> 95
                                      [] OTHER -> 80

\* keywordSearch returned a list holding a record of each rank.
C28_Witness ==
    /\ IsSearch(srv)
    /\ \E list \in KeywordLists :
          \A r \in 1..3 : \E k \in DOMAIN list :
              MatchRank(RowOf(list[k]), QueryOf(srv)) = r

(***************************************************************************)
(* The paragraph parts of a subsection                                     *)
(***************************************************************************)
\* The subsections chunkLargeFile splits by paragraph (the else branch of
\* line 178), each with its subName.
SplitSubsections(content) ==
    LET named(sec, sub) ==
            LET sectionName == IF sec.name # "" THEN sec.name ELSE "_intro"
            IN  [sub     |-> sub,
                 subName |-> IF sub.name # "" THEN sectionName \o " > " \o sub.name
                             ELSE sectionName]
    IN  UNION {{named(content.secs[s], content.secs[s].subs[k]) :
                    k \in {j \in DOMAIN content.secs[s].subs :
                              /\ SubTrim(content.secs[s].subs[j]) >= 10
                              /\ SubLength(content.secs[s].subs[j]) > CHUNK_CHAR_LIMIT}} :
                s \in {j \in DOMAIN content.secs :
                          /\ SectionTrim(content.secs[j]) >= 10
                          /\ SectionLength(content.secs[j]) > CHUNK_CHAR_LIMIT}}

\* The loop over the paragraphs (lines 182-197) without what it pushes:
\* how many times the accumulator was flushed, and the accumulator the
\* loop ends with.
RECURSIVE ParagraphLoop(_, _, _)
ParagraphLoop(paragraphs, accumulator, flushed) ==
    IF paragraphs = <<>> THEN [flushed |-> flushed, accumulator |-> accumulator]
    ELSE LET para  == Head(paragraphs)
             flush == /\ accumulator.length + para.length + 2 > CHUNK_CHAR_LIMIT
                      /\ accumulator.length > 0
         IN  ParagraphLoop(Tail(paragraphs),
                 AddParagraph(IF flush THEN EmptyAccumulator ELSE accumulator, para),
                 IF flush THEN flushed + 1 ELSE flushed)

\* The filenames the parts of a subsection are claimed to get: part1 ..
\* partN for the flushed accumulators, then the final accumulator of 10
\* characters or more as the next part, or bare when nothing was flushed.
PartNames(filename, subName, flushed, final) ==
    [k \in 1..flushed |-> filename \o "::" \o subName \o "::part" \o ToString(k)]
    \o (IF ~final THEN <<>>
        ELSE IF flushed > 0
        THEN <<filename \o "::" \o subName \o "::part" \o ToString(flushed + 1)>>
        ELSE <<filename \o "::" \o subName>>)

\* The chunks of the list, one after the other, carry the names.
EmittedAs(chunks, names) ==
    \E off \in 0..(Len(chunks) - Len(names)) :
        \A k \in DOMAIN names : chunks[off + k].filename = names[k]

\* C29: for every subsection that chunkLargeFile splits by paragraph, in a
\* document with or without a title, the accumulators flushed get the
\* filenames ::part1, ::part2, ... in the order of emission, and the final
\* accumulator, when it is emitted, is the next ::partN if a part was
\* flushed before it and the bare subsection chunk if none was.
C29_PartNames ==
    chk.pc = "done"
    => \A split \in SplitSubsections(chk.content) :
          LET loop == ParagraphLoop(Paragraphs(split.sub), EmptyAccumulator, 0)
          IN  EmittedAs(chk.chunks,
                        PartNames(chk.filename, split.subName, loop.flushed,
                                  loop.accumulator.trim >= 10))

(***************************************************************************)
(* The breadcrumb                                                          *)
(***************************************************************************)
\* The heading paths of a document: sectionName of every section (lines
\* 154-155) and subName of every subsection (lines 170-173).
HeadingPaths(content) ==
    UNION {LET sec == content.secs[s]
               sectionName == IF sec.name # "" THEN sec.name ELSE "_intro"
           IN  {sectionName}
               \cup {sectionName \o " > " \o sec.subs[k].name :
                        k \in {j \in DOMAIN sec.subs : sec.subs[j].name # ""}} :
           s \in DOMAIN content.secs}

\* The chunk is the section or subsection chunk of the heading path.
IsWholeOf(chunk, filename, path) == chunk.filename = filename \o "::" \o path

\* The chunk is part n of the subsection of the heading path.
IsPartOf(chunk, filename, path, n) ==
    chunk.filename = filename \o "::" \o path \o "::part" \o ToString(n)

\* C30 (as claimed): every chunk of a document with a title starts with
\* the line '> title > heading path' and a blank line, be it a section
\* chunk, a subsection chunk or a paragraph part; no chunk of a document
\* without a title has a prefix.
C30_BreadcrumbLine ==
    chk.pc = "done"
    => \A k \in DOMAIN chk.chunks :
          LET chunk == chk.chunks[k]
              title == chk.content.title
          IN  IF title = "" THEN chunk.content.prefix = ""
              ELSE \E path \in HeadingPaths(chk.content) :
                      /\ \/ IsWholeOf(chunk, chk.filename, path)
                         \/ \E n \in DOMAIN chk.chunks :
                               IsPartOf(chunk, chk.filename, path, n)
                      /\ chunk.content.prefix
                           = "> " \o title \o " > " \o path \o "\n\n"

\* C30 (amended): every section chunk and subsection chunk of a document
\* with a title starts with the line '> title > heading path' and a blank
\* line; a paragraph part ::partN starts with the line
\* '> title > heading path (part N)' and a blank line; no chunk of a
\* document without a title has a prefix.
C30_Breadcrumb ==
    chk.pc = "done"
    => \A k \in DOMAIN chk.chunks :
          LET chunk == chk.chunks[k]
              title == chk.content.title
          IN  IF title = "" THEN chunk.content.prefix = ""
              ELSE \E path \in HeadingPaths(chk.content) :
                      \/ /\ IsWholeOf(chunk, chk.filename, path)
                         /\ chunk.content.prefix
                              = "> " \o title \o " > " \o path \o "\n\n"
                      \/ \E n \in DOMAIN chk.chunks :
                            /\ IsPartOf(chunk, chk.filename, path, n)
                            /\ chunk.content.prefix
                                 = "> " \o title \o " > " \o path
                                     \o " (part " \o ToString(n) \o ")\n\n"

\* A document with a title was chunked into a section chunk, a subsection
\* chunk under a '### ' heading and a paragraph part.
C30_Witness ==
    /\ chk.pc = "done"
    /\ chk.content.title # ""
    /\ \E k \in DOMAIN chk.chunks : IsWholeOf(chk.chunks[k], chk.filename, "_intro")
    /\ \E k \in DOMAIN chk.chunks : IsWholeOf(chk.chunks[k], chk.filename, "a > x")
    /\ \E k \in DOMAIN chk.chunks : IsPartOf(chk.chunks[k], chk.filename, "b", 2)

(***************************************************************************)
(* The chunk identifiers                                                   *)
(***************************************************************************)
\* The sections chunkLargeFile emits whole (line 156), and the subsections
\* under a '### ' heading it emits whole (line 174), each with the name of
\* its section.
WholeSections(content) ==
    {content.secs[s] : s \in {j \in DOMAIN content.secs :
                                 /\ SectionTrim(content.secs[j]) >= 10
                                 /\ SectionLength(content.secs[j]) <= CHUNK_CHAR_LIMIT}}

WholeSubsections(content) ==
    UNION {{[section |-> IF content.secs[s].name # "" THEN content.secs[s].name
                         ELSE "_intro",
             name    |-> content.secs[s].subs[k].name] :
                k \in {j \in DOMAIN content.secs[s].subs :
                          /\ content.secs[s].subs[j].name # ""
                          /\ SubTrim(content.secs[s].subs[j]) >= 10
                          /\ SubLength(content.secs[s].subs[j]) <= CHUNK_CHAR_LIMIT}} :
            s \in {j \in DOMAIN content.secs :
                      /\ SectionTrim(content.secs[j]) >= 10
                      /\ SectionLength(content.secs[j]) > CHUNK_CHAR_LIMIT}}

\* A chunk of the list has the filename.
Emitted(chunks, filename) == \E k \in DOMAIN chunks : chunks[k].filename = filename

\* Every section emitted whole is named doc::section, the leading material
\* doc::_intro.
SectionIdentifiers ==
    \A sec \in WholeSections(chk.content) :
        Emitted(chk.chunks,
                chk.filename \o "::" \o (IF sec.name # "" THEN sec.name ELSE "_intro"))

C32_DistinctFilenames ==
    chk.pc = "done"
    => \A j, k \in DOMAIN chk.chunks :
          chk.chunks[j].filename = chk.chunks[k].filename => j = k

(***************************************************************************)
(* SpecSources: two sources with the same relative paths, each ingested    *)
(* by its own process, twice at most, the store calls of the two           *)
(* interleaved.                                                            *)
(***************************************************************************)
SourceConfigs ==
    <<PackConfig, [source |-> "pack-b", source_type |-> "pack"]>>

\* The scans of the two sources: the files f and p in both, with contents
\* of their own; in its second version f is edited and p has lost its
\* section B.
SourceScans(r) ==
    LET v == IF r = 1 THEN "a" ELSE "b"
    IN  {[exists |-> TRUE,
          files  |-> <<File(SmallPath, SmallContent(v \o "f1")),
                       File(ParentPath,
                            LargeContent("T", <<Sec(<<"A">>, v \o "1"),
                                                Sec(<<"B">>, v \o "2")>>))>>],
         [exists |-> TRUE,
          files  |-> <<File(SmallPath, SmallContent(v \o "f2")),
                       File(ParentPath,
                            LargeContent("T", <<Sec(<<"A">>, v \o "3")>>))>>]}

NextSources ==
    \E r \in Runners :
        \/ \E scan \in SourceScans(r) :
              run[r].prev.outcome = "none" /\ Start(r, SourceConfigs[r], scan)
        \/ ReadExisting(r)
        \/ CleanOldChunks(r)
        \/ \E resp \in ConcResponses : Fetch(r, resp)
        \/ UpsertDoc(r)
        \/ StoreFails(r)

SpecSources == Init /\ [][NextSources]_vars

\* The records that are not of the source.
RowsOfOthers(rows, source) == {row \in rows : row.source # source}

\* A run past its SELECT holds in existingHashes the filenames and hashes
\* of the records of its source in the table it started on, and nothing
\* else.
ReadsOwnSource(rn) ==
    (rn.pc \in {"delete", "embed", "upsert", "pause", "done"} /\ rn.documents # <<>>)
    => /\ \A name \in DOMAIN rn.existingHashes :
             \E row \in rn.storeBefore :
                 /\ row.source = rn.source
                 /\ row.filename = name
                 /\ row.hash = rn.existingHashes[name]
       /\ \A row \in RowsOfSource(rn.storeBefore, rn.source) :
             row.filename \in DOMAIN rn.existingHashes

\* C33: a run for source S reads only records of S, and no step of it
\* deletes, inserts or changes a record of another source, also when the
\* other source holds files of the same relative paths.
C33_OtherSourcesUntouched ==
    /\ [](\A r \in Runners : ReadsOwnSource(run[r]))
    /\ [][\A r \in Runners :
             run'[r] # run[r]
             => RowsOfOthers(store', run[r].source) = RowsOfOthers(store, run[r].source)]_vars

\* The second run of pack-a has deleted the chunk p::B and written p::A
\* again and returned, while the table holds f, p::A and p::B of pack-b.
C33_Witness ==
    /\ run[1].pc = "done"
    /\ run[1].prev.outcome = "ok"
    /\ run[1].deletes # <<>>
    /\ run[1].replaced
    /\ \E row \in run[1].deletedRows : row.source = "pack-a"
    /\ Cardinality(RowsOfSource(store, "pack-b")) = 3
    /\ Cardinality(RowsOfSource(run[1].storeBefore, "pack-b")) = 3

\* C34: after any sequence of writes by ingestion and by the guides
\* migration, the search_vector of every record is the full-text vector of
\* the content the record has.
C34_SearchVectorCurrent ==
    \A row \in store : row.search_vector = ToTsvector(row.content)

\* C35: every embedding in the store, written by ingestion or by the
\* guides migration, is a vector of the model the server asks for the
\* vector of a query (index.ts EMBEDDING_MODEL), the model of 1024
\* dimensions the schema declares.
C35_OneEmbeddingModel ==
    \A row \in store :
        \A query \in Queries : \A vec \in QueryVectors(query) :
            row.embedding.model = vec.model

(***************************************************************************)
(* The order of a merged result                                            *)
(***************************************************************************)
\* The search was answered by the merge of lines 169-176.
Merged(sv) == IsSearch(sv) /\ Answered(sv) /\ sv.path = "merge"

\* Every keyword score is 1.0, 0.95 or 0.8 and every semantic score is
\* under 0.6.
ScoresApart(sv) ==
    /\ \A k \in DOMAIN sv.kwFallback : sv.kwFallback[k].score \in {100, 95, 80}
    /\ \A k \in DOMAIN sv.vectorResults : sv.vectorResults[k].score < 60

\* In the list every entry of the keyword list comes before every entry
\* that is of the semantic list only.
KeywordEntriesFirst(results, sv) ==
    \A j, k \in DOMAIN results :
        (/\ results[k] \in Range(sv.kwFallback)
         /\ results[j] \notin Range(sv.kwFallback)) => k < j

\* The entries of a list without those whose filename an earlier entry
\* has (seen.get(r.filename) of line 172, the scores descending).
RECURSIVE FirstPerFilename(_)
FirstPerFilename(list) ==
    IF list = <<>> THEN <<>>
    ELSE LET rest == FirstPerFilename(SubSeq(list, 1, Len(list) - 1))
             r == list[Len(list)]
         IN  IF \E k \in DOMAIN rest : rest[k].filename = r.filename
             THEN rest ELSE Append(rest, r)

\* C36 (as claimed): in a merged result every entry of the keyword list
\* comes before every entry found by the semantic path only, the keyword
\* scores being 1.0, 0.95 or 0.8 and the semantic ones under 0.6; when the
\* keyword list has limit entries the merged result is the keyword list.
C36_KeywordListWins ==
    Merged(srv)
    => /\ ScoresApart(srv)
       /\ KeywordEntriesFirst(ResultsOf(srv), srv)
       /\ Len(srv.kwFallback) = srv.limit => ResultsOf(srv) = srv.kwFallback

\* C36 (amended): in a merged result every entry of the keyword list comes
\* before every entry found by the semantic path only, the keyword scores
\* being 1.0, 0.95 or 0.8 and the semantic ones under 0.6; the merged
\* result is the keyword list followed by the semantic list, without the
\* entries whose filename an earlier entry has, cut to limit; it is the
\* keyword list when that has limit entries of pairwise different
\* filenames.
C36_KeywordEntriesFirst ==
    Merged(srv)
    => /\ ScoresApart(srv)
       /\ KeywordEntriesFirst(ResultsOf(srv), srv)
       /\ ResultsOf(srv)
            = Take(FirstPerFilename(srv.kwFallback \o srv.vectorResults), srv.limit)
       /\ (/\ Len(srv.kwFallback) = srv.limit
           /\ FirstPerFilename(srv.kwFallback) = srv.kwFallback)
          => ResultsOf(srv) = srv.kwFallback

\* A merged result of limit 2: the keyword list had two entries of
\* different filenames, the semantic list two entries of which one is not
\* of the keyword list, and the result is the keyword list.
C36_Witness ==
    /\ Merged(srv)
    /\ srv.limit = 2
    /\ Len(srv.kwFallback) = 2
    /\ srv.kwFallback[1].filename # srv.kwFallback[2].filename
    /\ Len(srv.vectorResults) = 2
    /\ \E k \in DOMAIN srv.vectorResults :
          \A j \in DOMAIN srv.kwFallback :
              srv.vectorResults[k].filename # srv.kwFallback[j].filename
    /\ ResultsOf(srv) = srv.kwFallback

(***************************************************************************)
(* SpecLive: one run over a source of two batches, every external call of *)
(* the run returning: the step the run waits for is taken at last,         *)
(* whatever the provider and the store answer.                             *)
(***************************************************************************)
\* The steps of a run after its start: each is the return of an awaited
\* call (the SELECT, a DELETE, a fetch, an INSERT, the setTimeout) or its
\* rejection.
RunStep(r) ==
    \/ ReadExisting(r)
    \/ CleanOldChunks(r)
    \/ \E resp \in Responses : Fetch(r, resp)
    \/ UpsertDoc(r)
    \/ Pause(r)
    \/ StoreFails(r)

LiveSections == 11

\* The file q with LiveSections sections: two batches.
LiveContent ==
    LargeContent("Q", [n \in 1..LiveSections |-> Sec(<<"s">> \o Decimal(n), "x1")])

\* The scans: q; the small file f; a path that does not exist.
LiveScans ==
    {[exists |-> TRUE, files |-> <<File(BigPath, LiveContent)>>],
     [exists |-> TRUE, files |-> <<File(SmallPath, SmallContent("f1"))>>],
     NoScan}

\* The table is empty, or holds q as an earlier run has left it.
InitLive ==
    /\ store \in {{}, UpsertAll({}, PackConfig.source, PackConfig.source_type,
                                ScanDocuments(<<File(BigPath, LiveContent)>>))}
    /\ run = [r \in Runners |-> IdleRun]
    /\ mig = IdleMig
    /\ srv = IdleSrv
    /\ chk = IdleChk
    /\ peer = IdleSrv

NextLive ==
    \/ \E scan \in LiveScans : run[1].pc = "idle" /\ Start(1, PackConfig, scan)
    \/ RunStep(1)

SpecLive == InitLive /\ [][NextLive]_vars /\ WF_vars(RunStep(1))

Running(rn) == rn.pc \in {"read", "delete", "embed", "upsert", "pause"}

\* The run returned the number of documents it indexed, after
\* ceil(n/BATCH_SIZE) batches at most, or ended with a fatal error.
Terminated(rn) ==
    \/ /\ rn.pc = "done"
       /\ rn.result = Len(rn.upserts)
       /\ rn.result \in {0, Len(rn.toIndex)}
    \/ rn.pc = "failed" /\ rn.error # ""

\* C37: every ingestion run whose external calls all return ends: it
\* returns the number of documents it indexed or fails with an error.  No
\* batch is requested more than MAX_RETRIES times, and a run all of whose
\* requests were answered 429 has failed after 5 requests for its first
\* batch.
C37_RunTerminates ==
    /\ Running(run[1]) ~> Terminated(run[1])
    /\ [](LET rn == run[1]
          IN  /\ \A k \in DOMAIN rn.requests :
                    Cardinality({j \in DOMAIN rn.requests :
                                    rn.requests[j].i = rn.requests[k].i}) <= MAX_RETRIES
              /\ rn.pc \in {"done", "failed"} => Terminated(rn)
              /\ (/\ Len(rn.requests) >= 5
                  /\ \A k \in DOMAIN rn.requests : rn.requests[k].resp = "429")
                 => /\ rn.pc = "failed"
                    /\ Len(rn.requests) = 5
                    /\ \A k \in DOMAIN rn.requests : rn.requests[k].i = 0
                    /\ rn.upserts = <<>>)

\* A run has failed after five requests that were all answered 429.
C37_Witness ==
    /\ run[1].pc = "failed"
    /\ Len(run[1].requests) = 5
    /\ \A k \in DOMAIN run[1].requests : run[1].requests[k].resp = "429"
    /\ run[1].error = "Cloudflare AI: max retries exceeded (rate limited)"

(***************************************************************************)
(* The paragraphs of a split subsection                                    *)
(***************************************************************************)
\* What the paragraph branch (lines 181-214) pushes for a subsection.
PartsOf(split) ==
    SplitByParagraphs(Paragraphs(split.sub), EmptyAccumulator, 0,
                      chk.content.title, chk.filename, split.subName)

\* The paragraphs of the chunks in the order of emission.
ParasOf(chunks) == Flatten([k \in DOMAIN chunks |-> chunks[k].content.paras])

\* The chunks are emitted one after the other by chunkLargeFile.
EmittedTogether(chunks) ==
    \E off \in 0..(Len(chk.chunks) - Len(chunks)) :
        \A k \in DOMAIN chunks : chk.chunks[off + k] = chunks[k]

\* The paragraphs left in the accumulator that line 199 does not emit.
DroppedParas(split) ==
    LET final == ParagraphLoop(Paragraphs(split.sub), EmptyAccumulator, 0).accumulator
    IN  IF final.trim >= 10 THEN <<>> ELSE final.paras

====
